---- MODULE Spec2Model ----
(***************************************************************************)
(* A model of the record/table layer, the persistence archive and the      *)
(* footprint / heavy-footprint code of LSST afw.                           *)
(*                                                                         *)
(* The module holds several state machines over disjoint groups of         *)
(* variables; each has its own specification (SpecRecord, SpecArchive,     *)
(* SpecHeavy, SpecFoot) in which the other groups stay idle.               *)
(***************************************************************************)
EXTENDS Integers, Sequences, FiniteSets, TLC

VARIABLES
    recs,     \* the records made so far: <<[schema, data], ...>>
    rlast,    \* the outcome of the last BaseRecord::assign call
    arch,     \* OutputArchive::Impl: next id, pointer map, index rows, catalogs
    alast,    \* the outcome of the last OutputArchive::put call
    img,      \* the source MaskedImage of the heavy-footprint machine
    heavy,    \* the HeavyFootprints built so far
    img2,     \* the MaskedImage that HeavyFootprint::insert writes into
    dotst,    \* the loop state of HeavyFootprint::dot
    hlast,    \* the outcome of the last heavy-footprint operation
    fp,       \* the Bootprint under edit: spans, peaks, region
    flast,    \* the outcome of the last Bootprint operation
    saved,    \* the archive the Bootprint was last written to
    loaded,   \* the Bootprint read back from that archive
    idf,      \* the IdFactory: its kind and private members
    idg,      \* what the factory has been asked so far
    idlast,   \* the outcome of the last IdFactory call
    fmap,     \* FitsSchemaInputMapper::Impl and the record it reads into
    fmlast,   \* the outcome of the last FitsSchemaInputMapper call
    mdict,    \* the MaskDict holders and the MaskDictImpl objects they point to
    mlast     \* the outcome of the last MaskDict operation

recVars  == <<recs, rlast>>
archVars == <<arch, alast>>
heavyVars == <<img, heavy, img2, dotst, hlast>>
footVars == <<fp, flast, saved, loaded>>
idVars == <<idf, idg, idlast>>
mapVars == <<fmap, fmlast>>
maskVars == <<mdict, mlast>>
laterVars == <<idVars, mapVars, maskVars>>
vars == <<recVars, archVars, heavyVars, footVars, laterVars>>

notRecVars == <<archVars, heavyVars, footVars, laterVars>>
notArchVars == <<recVars, heavyVars, footVars, laterVars>>
notHeavyVars == <<recVars, archVars, footVars, laterVars>>
notFootVars == <<recVars, archVars, heavyVars, laterVars>>
notIdVars == <<recVars, archVars, heavyVars, footVars, mapVars, maskVars>>
notMapVars == <<recVars, archVars, heavyVars, footVars, idVars, maskVars>>
notMaskVars == <<recVars, archVars, heavyVars, footVars, idVars, mapVars>>

None == [op |-> "none"]

(***************************************************************************)
(* Generic helpers.                                                        *)
(***************************************************************************)
Range(s) == {s[i] : i \in DOMAIN s}

Max(a, b) == IF a >= b THEN a ELSE b

Min(a, b) == IF a <= b THEN a ELSE b

RECURSIVE Pow2(_)
Pow2(n) == IF n = 0 THEN 1 ELSE 2 * Pow2(n - 1)

RemoveAt(s, i) == [j \in 1..(Len(s) - 1) |-> IF j < i THEN s[j] ELSE s[j + 1]]

(***************************************************************************)
(* Schema, Key and BaseRecord.                                             *)
(*                                                                         *)
(* A schema is a sequence of items; an item carries the field name and     *)
(* the key: type, byte offset, element count, and for a Flag the bit in    *)
(* the shared word.  A record buffer maps each offset to what is stored    *)
(* there: the elements of a scalar or fixed array, the word shared by the  *)
(* flags, or the handle of a variable-length array.                        *)
(***************************************************************************)
Item(n, t, o, c, b, v) ==
    [name |-> n, type |-> t, offset |-> o, count |-> c, bit |-> b, varlen |-> v]

\* x:int, two flags sharing the word at offset 8, d:double
SchemaA == << Item("x", "I32", 0, 1, 0, FALSE),
              Item("fa", "Flag", 8, 1, 0, FALSE),
              Item("fb", "Flag", 8, 1, 1, FALSE),
              Item("d", "D", 16, 1, 0, FALSE) >>

\* SchemaA followed by a variable-length Array<int>
SchemaB == SchemaA \o << Item("arr", "ArrayI", 24, 0, 0, TRUE) >>

\* x:int and a fixed-size Array<int> of one element
SchemaC == << Item("x", "I32", 0, 1, 0, FALSE),
              Item("arr", "ArrayI", 4, 1, 0, FALSE) >>

Schemas == {SchemaA, SchemaB, SchemaC}

Offsets(schema) == {schema[i].offset : i \in DOMAIN schema}

\* Schema::operator== : the same name -> type -> offset mapping
SchemaEq(s1, s2) == Range(s1) = Range(s2)

\* Schema::contains : every field of other is present in self
SchemaContains(self, other) == Range(other) \subseteq Range(self)

\* Key<T>::isVariableLength
isVariableLength(key) == key.varlen

\* the whole word is tested, not the one bit
FlagGetValueWord(word, bit) == word # 0

\* Key<Flag>::getValue : (*p) & (Element(1) << _bit), converted to bool
FlagGetValue(word, bit) == ((word \div Pow2(bit)) % 2) # 0

FlagSetValueOverwrite(word, bit, v) == IF v THEN Pow2(bit) ELSE 0

\* Key<Flag>::setValue : *p |= 1 << _bit, or *p &= ~(1 << _bit)
FlagSetValue(word, bit, v) ==
    IF v
    THEN IF FlagGetValue(word, bit) THEN word ELSE word + Pow2(bit)
    ELSE IF FlagGetValue(word, bit) THEN word - Pow2(bit) ELSE word

\* BaseRecord::get
RecordGet(data, key) ==
    IF key.type = "Flag" THEN FlagGetValue(data[key.offset], key.bit)
    ELSE IF key.count = 1 /\ ~key.varlen /\ key.type # "ArrayI" THEN data[key.offset][1]
    ELSE data[key.offset]

\* BaseRecord::set
RecordSet(data, key, v) ==
    IF key.type = "Flag"
    THEN [data EXCEPT ![key.offset] = FlagSetValue(@, key.bit, v)]
    ELSE IF key.count = 1 /\ ~key.varlen /\ key.type # "ArrayI"
    THEN [data EXCEPT ![key.offset] = <<v>>]
    ELSE [data EXCEPT ![key.offset] = v]

\* a double: NaN, or the number v
Double(v) == [nan |-> FALSE, v |-> v]

quiet_NaN == [nan |-> TRUE, v |-> 0]

\* the fields whose elements are float, double or Angle
FloatingTypes == {"F", "D", "Angle", "ArrayF", "ArrayD"}

\* the floating-point elements are left at 0.0
FillValueZero(type) == IF type \in FloatingTypes THEN Double(0) ELSE 0

\* RecordInitializer::fill on one element of a field: NaN for float, double and
\* Angle elements, nothing (the buffer's zero) for the others
FillValue(type) == IF type \in FloatingTypes THEN quiet_NaN ELSE 0

\* RecordInitializer, run by the BaseRecord constructor over a zeroed buffer
RecordInitializer(schema) ==
    [o \in Offsets(schema) |->
        LET it == CHOOSE i \in Range(schema) : i.offset = o
        IN  IF it.type = "Flag" THEN 0
            ELSE IF it.varlen THEN << >>
            ELSE [k \in 1..it.count |-> FillValue(it.type)]]

\* std::copy(inputElem, inputElem + inputKey.getElementCount(), outputElem)
CopyElements(inData, outData, inputKey, outputKey) ==
    [outData EXCEPT ![outputKey.offset] =
        [k \in DOMAIN @ |-> IF k <= inputKey.count THEN inData[inputKey.offset][k] ELSE @[k]]]

\* CopyValue::operator()(inputKey, outputKey): the new output buffer, or the error
CopyValue(inData, outData, inputKey, outputKey) ==
    IF inputKey.type = "Flag"
    THEN [status |-> "ok",
          data |-> RecordSet(outData, outputKey, RecordGet(inData, inputKey))]
    ELSE IF inputKey.type = "ArrayI"
    THEN IF isVariableLength(inputKey) # isVariableLength(outputKey)
         THEN [status |-> "InvalidParameterError", data |-> outData]
         ELSE IF isVariableLength(inputKey)
         THEN [status |-> "ok",
               data |-> RecordSet(outData, outputKey, RecordGet(inData, inputKey))]
         ELSE [status |-> "ok", data |-> CopyElements(inData, outData, inputKey, outputKey)]
    ELSE [status |-> "ok", data |-> CopyElements(inData, outData, inputKey, outputKey)]

\* forEach(CopyValue(&other, this)) over key pairs; stops at the first throw
RECURSIVE CopyAll(_, _, _, _)
CopyAll(inData, outData, pairs, i) ==
    IF i > Len(pairs) THEN [status |-> "ok", data |-> outData]
    ELSE LET r == CopyValue(inData, outData, pairs[i][1], pairs[i][2])
         IN  IF r.status # "ok" THEN r
             ELSE CopyAll(inData, r.data, pairs, i + 1)

SchemaPairs(schema) == [i \in DOMAIN schema |-> <<schema[i], schema[i]>>]

\* the keys this's schema shares with other's are copied, then the check fails
AssignCheckLate(this, other) ==
    IF ~SchemaEq(this.schema, other.schema)
    THEN [status |-> "LogicError",
          data |-> CopyAll(other.data, this.data,
                           SchemaPairs(SelectSeq(this.schema,
                                                 LAMBDA it : it \in Range(other.schema))), 1).data]
    ELSE CopyAll(other.data, this.data, SchemaPairs(this.schema), 1)

\* BaseRecord::assign(other); _assign is the empty hook of BaseRecord
Assign(this, other) ==
    IF ~SchemaEq(this.schema, other.schema)
    THEN [status |-> "LogicError", data |-> this.data]
    ELSE CopyAll(other.data, this.data, SchemaPairs(this.schema), 1)

\* SchemaMapper: input schema, output schema and the (inputKey, outputKey) pairs
MapperAA == [input |-> SchemaA, output |-> SchemaA, pairs |-> SchemaPairs(SchemaA)]

MapperBB == [input |-> SchemaB, output |-> SchemaB, pairs |-> SchemaPairs(SchemaB)]

\* maps x to x, then the variable-length array onto the fixed-size one
MapperBC == [input |-> SchemaB, output |-> SchemaC,
             pairs |-> << <<SchemaB[1], SchemaC[1]>>, <<SchemaB[5], SchemaC[2]>> >>]

Mappers == {MapperAA, MapperBB, MapperBC}

\* BaseRecord::assign(other, mapper)
AssignMapped(this, other, mapper) ==
    IF ~SchemaContains(other.schema, mapper.input)
    THEN [status |-> "LogicError", data |-> this.data]
    ELSE IF ~SchemaContains(this.schema, mapper.output)
    THEN [status |-> "LogicError", data |-> this.data]
    ELSE CopyAll(other.data, this.data, mapper.pairs, 1)

\* the machine holds two records: r and r2 of r2.assign(r)
RecordIds == {1, 2}

\* the values a caller stores in a field of the given type
SetValues(key) ==
    IF key.type = "Flag" THEN BOOLEAN
    ELSE IF key.type = "ArrayI" THEN {<<7>>}
    ELSE IF key.type = "D" THEN {Double(1)}
    ELSE {1}

RecInit == recs = << >> /\ rlast = None

\* BaseTable::makeRecord
MakeRecord ==
    /\ Len(recs) + 1 \in RecordIds
    /\ \E s \in Schemas :
          recs' = Append(recs, [schema |-> s, data |-> RecordInitializer(s)])
    /\ rlast' = None
    /\ UNCHANGED notRecVars

\* record.set(key, value)
SetField ==
    /\ \E r \in DOMAIN recs : \E i \in DOMAIN recs[r].schema :
         \E v \in SetValues(recs[r].schema[i]) :
           /\ recs' = [recs EXCEPT ![r].data = RecordSet(@, recs[r].schema[i], v)]
           /\ recs'[r] # recs[r]
           /\ rlast' = None
    /\ UNCHANGED notRecVars

\* r2.assign(r)
DoAssign ==
    /\ \E t \in DOMAIN recs : \E s \in DOMAIN recs :
           LET res == Assign(recs[t], recs[s])
           IN  /\ recs' = [recs EXCEPT ![t].data = res.data]
               /\ rlast' = [op |-> "assign", tgt |-> t, src |-> s, status |-> res.status,
                            pre |-> recs[t].data, srcData |-> recs[s].data]
    /\ UNCHANGED notRecVars

\* r2.assign(r, mapper)
DoAssignMapped ==
    /\ \E t \in DOMAIN recs : \E s \in DOMAIN recs : \E m \in Mappers :
           LET res == AssignMapped(recs[t], recs[s], m)
           IN  /\ recs' = [recs EXCEPT ![t].data = res.data]
               /\ rlast' = [op |-> "assignMapped", tgt |-> t, src |-> s, mapper |-> m,
                            status |-> res.status,
                            pre |-> recs[t].data, srcData |-> recs[s].data]
    /\ UNCHANGED notRecVars

(***************************************************************************)
(* OutputArchive.                                                          *)
(*                                                                         *)
(* Persistable objects live in a heap: address -> object, address 0 being  *)
(* the null pointer.  A Bootprint holds the address of its SpanSet, which  *)
(* may be shared with another Bootprint.                                   *)
(***************************************************************************)
Span(y, x0, x1) == [y |-> y, x0 |-> x0, x1 |-> x1]

Object(k, spans, ref, peaks, x, p) ==
    [kind |-> k, spans |-> spans, spansRef |-> ref, peaks |-> peaks, x |-> x,
     persistable |-> p]

SpanSetObj(spans) == Object("SpanSet", spans, 0, << >>, 0, TRUE)

BootprintObj(ref, peaks) == Object("Bootprint", << >>, ref, peaks, 0, TRUE)

PsfObj(x, p) == Object("DummyPsf", << >>, 0, << >>, x, p)

Null == 0

EmptyArchive ==
    [nextId |-> 1, map |-> << >>, index |-> << >>, cats |-> << >>, broken |-> FALSE]

\* OutputArchiveHandle::saveCatalog: the catalog joins the archive's catalogs
saveCatalog(h, cat) ==
    [h EXCEPT !.a.cats = Append(@, cat),
              !.first = IF h.count = 0 THEN Len(h.a.cats) + 1 ELSE @,
              !.count = @ + 1]

\* a catalog: the field names of its schema and its rows
Catalog(fields, rows) == [fields |-> fields, rows |-> rows]

\* spanSetPersistenceHelper: the schema of the one-row catalog naming the SpanSet
SpanSetIdFields == << "id" >>

\* PeakTable::makeMinimalSchema
PeakFields == << "i_x", "i_y", "f_x", "f_y", "peakValue" >>

\* SpanSet::write: one catalog holding one row per span
SpanSetWrite(h, obj) == saveCatalog(h, Catalog(<< "y", "x0", "x1" >>, obj.spans))

\* DummyPsf::write
DummyPsfWrite(h, obj) == saveCatalog(h, Catalog(<< "x" >>, << [x |-> obj.x] >>))

RECURSIVE PutRaw(_, _, _, _)
RECURSIVE PutShared(_, _, _, _)
RECURSIVE WriteObject(_, _, _)

\* the SpanSet goes through the raw-pointer overload
BootprintWriteRawSpans(h, heap, obj) ==
    LET r == PutRaw(h.a, heap, obj.spansRef, FALSE)
        h1 == saveCatalog([h EXCEPT !.a = r.a], Catalog(SpanSetIdFields, << [id |-> r.id] >>))
    IN  saveCatalog(h1, Catalog(PeakFields, obj.peaks))

\* Bootprint::write
BootprintWrite(h, heap, obj) ==
    LET r == PutShared(h.a, heap, obj.spansRef, FALSE)
        h1 == saveCatalog([h EXCEPT !.a = r.a], Catalog(SpanSetIdFields, << [id |-> r.id] >>))
    IN  saveCatalog(h1, Catalog(PeakFields, obj.peaks))

\* obj->write(handle), dispatched on the dynamic type
WriteObject(h, heap, o) ==
    IF heap[o].kind = "SpanSet" THEN SpanSetWrite(h, heap[o])
    ELSE IF heap[o].kind = "Bootprint" THEN BootprintWrite(h, heap, heap[o])
    ELSE DummyPsfWrite(h, heap[o])

\* the handle's destructor: the object's row of the index catalog
IndexRow(h, heap, o) ==
    [id |-> h.id, obj |-> o, name |-> heap[o].kind, first |-> h.first, count |-> h.count]

\* the null pointer is given the next id like any object
PutRawNoNullCheck(a, heap, o, permissive) ==
    IF o = Null
    THEN [a |-> [a EXCEPT !.nextId = @ + 1], id |-> a.nextId, status |-> "ok"]
    ELSE LET h0 == [a |-> [a EXCEPT !.nextId = @ + 1], id |-> a.nextId,
                    first |-> 0, count |-> 0]
             h1 == WriteObject(h0, heap, o)
         IN  [a |-> [h1.a EXCEPT !.index = Append(@, IndexRow(h1, heap, o))],
              id |-> h0.id, status |-> "ok"]

\* OutputArchive::put(Persistable const *, permissive); an object that is not
\* persistable throws from write(), after the id was taken
PutRaw(a, heap, o, permissive) ==
    IF o = Null THEN [a |-> a, id |-> 0, status |-> "ok"]
    ELSE IF permissive /\ ~heap[o].persistable THEN [a |-> a, id |-> 0, status |-> "ok"]
    ELSE IF ~heap[o].persistable
    THEN [a |-> [a EXCEPT !.nextId = @ + 1, !.broken = TRUE],
          id |-> 0, status |-> "LogicError"]
    ELSE LET h0 == [a |-> [a EXCEPT !.nextId = @ + 1], id |-> a.nextId,
                    first |-> 0, count |-> 0]
             h1 == WriteObject(h0, heap, o)
         IN  [a |-> [h1.a EXCEPT !.index = Append(@, IndexRow(h1, heap, o))],
              id |-> h0.id, status |-> "ok"]

\* OutputArchive::put(std::shared_ptr<Persistable const>, permissive): the pointer
\* map decides whether the object is written
PutShared(a, heap, o, permissive) ==
    IF o = Null THEN [a |-> a, id |-> 0, status |-> "ok"]
    ELSE IF permissive /\ ~heap[o].persistable THEN [a |-> a, id |-> 0, status |-> "ok"]
    ELSE IF o \in DOMAIN a.map THEN [a |-> a, id |-> a.map[o], status |-> "ok"]
    ELSE PutRaw([a EXCEPT !.map = (o :> a.nextId) @@ @], heap, o, permissive)

\* the objects of the archive machine: two SpanSets, three Bootprints (3 and 4
\* share SpanSet 1, 5 has no SpanSet), a DummyPsf and one that is not persistable
ArchiveHeap ==
    << SpanSetObj(<< Span(0, 0, 1) >>),
       SpanSetObj(<< Span(1, 0, 0) >>),
       BootprintObj(1, << >>),
       BootprintObj(1, << >>),
       BootprintObj(Null, << >>),
       PsfObj(3, TRUE),
       PsfObj(4, FALSE) >>

\* held by shared_ptr everywhere
SharedObjects == {1, 2, 3, 4, 5}

\* temporaries, saved through the const-reference overload
Temporaries == {6, 7}

MaxId == 5

ArchInit == arch = EmptyArchive /\ alast = None

\* archive.put(shared_ptr, permissive)
DoPutShared ==
    /\ ~arch.broken /\ arch.nextId <= MaxId
    /\ \E o \in SharedObjects \cup {Null} : \E permissive \in BOOLEAN :
        LET r == PutShared(arch, ArchiveHeap, o, permissive)
        IN  /\ arch' = r.a
            /\ alast' = [op |-> "putShared", obj |-> o, id |-> r.id, status |-> r.status,
                         pre |-> arch]
    /\ UNCHANGED notArchVars

\* archive.put(obj const &, permissive)
DoPutRaw ==
    /\ ~arch.broken /\ arch.nextId <= MaxId
    /\ \E o \in Temporaries \cup {Null} : \E permissive \in BOOLEAN :
        LET r == PutRaw(arch, ArchiveHeap, o, permissive)
        IN  /\ arch' = r.a
            /\ alast' = [op |-> "putRaw", obj |-> o, id |-> r.id, status |-> r.status,
                         pre |-> arch]
    /\ UNCHANGED notArchVars

(***************************************************************************)
(* MaskedImage and HeavyFootprint.                                         *)
(*                                                                         *)
(* An image covers Cols x Rows array elements and has an origin xy0; a     *)
(* plane maps the array index <<column, row>> to the pixel value.  Spans   *)
(* are in parent coordinates.                                              *)
(***************************************************************************)
Cols == 0..2

Rows == 0..1

Grid == Cols \X Rows

Width(span) == span.x1 - span.x0 + 1

\* the pixels of a span list, in span order
RECURSIVE SpanPixels(_, _)
SpanPixels(spans, i) ==
    IF i > Len(spans) THEN << >>
    ELSE [k \in 1..Width(spans[i]) |-> <<spans[i].x0 + k - 1, spans[i].y>>]
         \o SpanPixels(spans, i + 1)

PixelSet(spans) == Range(SpanPixels(spans, 1))

\* Footprint::getNpix
getNpix(spans) == Len(SpanPixels(spans, 1))

\* Footprint::isNormalized: rows ascending, spans of a row ascending and apart
isNormalized(spans) ==
    \A i \in 1..(Len(spans) - 1) :
        \/ spans[i].y < spans[i + 1].y
        \/ spans[i].y = spans[i + 1].y /\ spans[i].x1 < spans[i + 1].x0

\* the maximal runs of a pixel set, as a normalized span list
RECURSIVE RunsOf(_)
RunsOf(P) ==
    IF P = {} THEN << >>
    ELSE LET y  == CHOOSE v \in {p[2] : p \in P} : \A p \in P : v <= p[2]
             x0 == CHOOSE v \in {p[1] : p \in {q \in P : q[2] = y}} :
                      \A p \in {q \in P : q[2] = y} : v <= p[1]
             x1 == CHOOSE v \in {p[1] : p \in {q \in P : q[2] = y}} :
                      /\ v >= x0
                      /\ \A x \in x0..v : <<x, y>> \in P
                      /\ <<v + 1, y>> \notin P
         IN  << Span(y, x0, x1) >> \o RunsOf(P \ {<<x, y>> : x \in x0..x1})

MaxSpans == 3

\* the normalized span lists over the array indices, of at most MaxSpans spans
GridFootprints == {f \in {RunsOf(P) : P \in SUBSET Grid} : Len(f) <= MaxSpans}

\* SpanSet::shiftedBy
shiftedBy(spans, dx, dy) ==
    [i \in DOMAIN spans |-> Span(spans[i].y + dy, spans[i].x0 + dx, spans[i].x1 + dx)]

\* the footprints lying inside an image of origin xy0
Footprints(xy0) == {shiftedBy(f, xy0[1], xy0[2]) : f \in GridFootprints}

\* flattenArray(fp, src, dest, xy0): the plane's pixels under the spans, in span order
flattenArray(spans, plane, xy0) ==
    LET px == SpanPixels(spans, 1)
    IN  [i \in DOMAIN px |-> plane[<<px[i][1] - xy0[1], px[i][2] - xy0[2]>>]]

\* expandArray(fp, src, dest, xy0): the flat array written back under the spans
expandArray(spans, arr, plane, xy0) ==
    LET px == SpanPixels(spans, 1)
    IN  [q \in DOMAIN plane |->
            IF \E i \in DOMAIN px : px[i] = <<q[1] + xy0[1], q[2] + xy0[2]>>
            THEN arr[CHOOSE i \in DOMAIN px : px[i] = <<q[1] + xy0[1], q[2] + xy0[2]>>]
            ELSE plane[q]]

U16Bits == 16

RECURSIVE BitAnd(_, _)
BitAnd(a, b) ==
    IF a = 0 \/ b = 0 THEN 0
    ELSE 2 * BitAnd(a \div 2, b \div 2) + (IF a % 2 = 1 /\ b % 2 = 1 THEN 1 ELSE 0)

BitOr(a, b) == a + b - BitAnd(a, b)

\* T(~val) for T = boost::uint16_t
BitNot16(val) == Pow2(U16Bits) - 1 - (val % Pow2(U16Bits))

\* setPixel<T>::operator(): the value; for boost::uint16_t, pix & ~val
setPixel(T, val, pix) == IF T = "U16" THEN BitAnd(pix, BitNot16(val)) ELSE val

MaskPixelT == "U16"

VariancePixelT == "F32"

\* what flattenArray(fp, src, dest, setPixel<T>(val), xy0) leaves in src: the
\* functor's result for each pixel under the spans
applyPixelOp(spans, plane, xy0, T, val) ==
    [q \in DOMAIN plane |->
        IF <<q[1] + xy0[1], q[2] + xy0[2]>> \in PixelSet(spans)
        THEN setPixel(T, val, plane[q])
        ELSE plane[q]]

\* HeavyFootprintCtrl: the policy and the three values
CtrlNone == [modifySource |-> "NONE", imageVal |-> 0, maskVal |-> 0, varianceVal |-> 0]

CtrlSet == [modifySource |-> "SET", imageVal |-> 3, maskVal |-> 1, varianceVal |-> 7]

\* the image plane is flattened into every array
HeavyCtorImageOnly(foot, mimage, ctrl) ==
    [h |-> [valid |-> TRUE, spans |-> foot,
            image |-> flattenArray(foot, mimage.image, mimage.xy0),
            mask |-> flattenArray(foot, mimage.image, mimage.xy0),
            variance |-> flattenArray(foot, mimage.image, mimage.xy0),
            from |-> mimage],
     mimage |-> mimage]

\* HeavyFootprint::HeavyFootprint(foot, mimage, ctrl): the heavy footprint and
\* the source image afterwards
HeavyCtor(foot, mimage, ctrl) ==
    LET h == [valid |-> TRUE, spans |-> foot,
              image |-> flattenArray(foot, mimage.image, mimage.xy0),
              mask |-> flattenArray(foot, mimage.mask, mimage.xy0),
              variance |-> flattenArray(foot, mimage.variance, mimage.xy0),
              from |-> mimage]
    IN  IF ctrl.modifySource = "NONE" THEN [h |-> h, mimage |-> mimage]
        ELSE [h |-> h,
              mimage |-> [mimage EXCEPT
                 !.image = applyPixelOp(foot, @, mimage.xy0, mimage.type, ctrl.imageVal),
                 !.mask = applyPixelOp(foot, @, mimage.xy0, MaskPixelT, ctrl.maskVal),
                 !.variance = applyPixelOp(foot, @, mimage.xy0, VariancePixelT, ctrl.varianceVal)]]

\* the mask array lands in the variance plane and the other way round
HeavyInsertSwapped(h, mimage) ==
    [mimage EXCEPT !.image = expandArray(h.spans, h.image, @, mimage.xy0),
                   !.mask = expandArray(h.spans, h.variance, @, mimage.xy0),
                   !.variance = expandArray(h.spans, h.mask, @, mimage.xy0)]

\* HeavyFootprint::insert(MaskedImage &)
HeavyInsert(h, mimage) ==
    [mimage EXCEPT !.image = expandArray(h.spans, h.image, @, mimage.xy0),
                   !.mask = expandArray(h.spans, h.mask, @, mimage.xy0),
                   !.variance = expandArray(h.spans, h.variance, @, mimage.xy0)]

NoHeavy == [valid |-> FALSE, spans |-> << >>, image |-> << >>, mask |-> << >>,
            variance |-> << >>, from |-> 0]

\* the images the machine starts from: pixel type, origin and three planes
SourceImage(T, xy0, k) ==
    [type |-> T, xy0 |-> xy0,
     image |-> [q \in Grid |-> k + q[1] + 3 * q[2]],
     mask |-> [q \in Grid |-> (q[1] + q[2]) % 4],
     variance |-> [q \in Grid |-> 10 + 2 * q[1] + q[2]]]

\* MaskedImage(bbox): every plane zero
ZeroImage(T, xy0) ==
    [type |-> T, xy0 |-> xy0, image |-> [q \in Grid |-> 0], mask |-> [q \in Grid |-> 0],
     variance |-> [q \in Grid |-> 0]]

PixelTypes == {"U16", "I32", "F32", "F64"}

Origins == {<<0, 0>>, <<2, 1>>}

HeavyIdle ==
    /\ img = ZeroImage("F32", <<0, 0>>) /\ heavy = <<NoHeavy, NoHeavy>>
    /\ img2 = ZeroImage("F32", <<0, 0>>) /\ dotst = [pc |-> "idle"] /\ hlast = None

HeavyInit ==
    /\ \E T \in PixelTypes : \E o \in Origins :
         /\ img = SourceImage(T, o, 1)
         /\ img2 \in {ZeroImage(T, o), SourceImage(T, o, 5)}
    /\ heavy = <<NoHeavy, NoHeavy>>
    /\ dotst = [pc |-> "idle"]
    /\ hlast = None

\* makeHeavyFootprint(foot, img, ctrl)
DoMakeHeavy ==
    /\ ~heavy[1].valid
    /\ \E foot \in Footprints(img.xy0) : \E ctrl \in {CtrlNone, CtrlSet} :
        LET r == HeavyCtor(foot, img, ctrl)
        IN  /\ heavy' = [heavy EXCEPT ![1] = r.h]
            /\ img' = r.mimage
            /\ hlast' = [op |-> "make", foot |-> foot, ctrl |-> ctrl, pre |-> img]
    /\ UNCHANGED <<img2, dotst>>
    /\ UNCHANGED notHeavyVars

\* heavy.insert(img2)
DoInsert ==
    /\ heavy[1].valid
    /\ img2' = HeavyInsert(heavy[1], img2)
    /\ hlast' = [op |-> "insert", foot |-> heavy[1].spans, ctrl |-> CtrlNone, pre |-> img2]
    /\ UNCHANGED <<img, heavy, dotst>>
    /\ UNCHANGED notHeavyVars

(***************************************************************************)
(* HeavyFootprint::dot, one iteration of the outer while loop per step.    *)
(* lhsIter and rhsIter index the span lists from 1 (Len + 1 is end());     *)
(* lhsArray and rhsArray are the offsets of the two array iterators from   *)
(* begin().                                                                *)
(***************************************************************************)
\* *(array + k)
ArrayAt(arr, k) == IF k + 1 \in DOMAIN arr THEN arr[k + 1] ELSE 0

RECURSIVE SumProducts(_, _, _, _, _, _)
SumProducts(lhs, rhs, la, ra, x, xMax) ==
    IF x > xMax THEN 0
    ELSE ArrayAt(lhs, la) * ArrayAt(rhs, ra) + SumProducts(lhs, rhs, la + 1, ra + 1, x + 1, xMax)

\* the spans are skipped, the array iterator stays
RECURSIVE SkipRowsKeepArray(_, _, _, _)
SkipRowsKeepArray(spans, iter, array, y) ==
    IF iter <= Len(spans) /\ spans[iter].y < y
    THEN SkipRowsKeepArray(spans, iter + 1, array, y)
    ELSE [iter |-> iter, array |-> array]

\* while (iter != end && (*iter)->getY() < y) { array += width; ++iter; }
RECURSIVE SkipRows(_, _, _, _)
SkipRows(spans, iter, array, y) ==
    IF iter <= Len(spans) /\ spans[iter].y < y
    THEN SkipRows(spans, iter + 1, array + Width(spans[iter]), y)
    ELSE [iter |-> iter, array |-> array]

\* the iterator stays behind the pixels that were multiplied
RewindNone(array, xMax, x0) == array

\* array -= xMax + 1 - x0, back to the start of the span
Rewind(array, xMax, x0) == array - (xMax + 1 - x0)

DotCondition(h1, h2, st) == st.lhsIter # Len(h1.spans) + 1 /\ st.rhsIter # Len(h2.spans) + 1

\* the body of the while loop
DotBody(h1, h2, st) ==
    LET lhsSpan == h1.spans[st.lhsIter]
        rhsSpan == h2.spans[st.rhsIter]
        yLhs == lhsSpan.y
        yRhs == rhsSpan.y
    IN  IF yLhs = yRhs
        THEN LET xMin == Max(lhsSpan.x0, rhsSpan.x0)
                 xMax == Min(lhsSpan.x1, rhsSpan.x1)
                 la == st.lhsArray + (xMin - lhsSpan.x0)
                 ra == st.rhsArray + (xMin - rhsSpan.x0)
                 sum == IF xMin <= xMax
                        THEN st.sum + SumProducts(h1.image, h2.image, la, ra, xMin, xMax)
                        ELSE st.sum
                 lhsArray == IF xMin <= xMax
                             THEN Rewind(la + (xMax + 1 - xMin), xMax, lhsSpan.x0)
                             ELSE st.lhsArray
                 rhsArray == IF xMin <= xMax
                             THEN Rewind(ra + (xMax + 1 - xMin), xMax, rhsSpan.x0)
                             ELSE st.rhsArray
                 oob == xMin <= xMax /\
                        (la < 0 \/ ra < 0 \/ la + (xMax - xMin) >= Len(h1.image)
                                \/ ra + (xMax - xMin) >= Len(h2.image))
             IN  IF lhsSpan.x1 <= rhsSpan.x1
                 THEN [st EXCEPT !.sum = sum, !.oob = @ \/ oob, !.rhsArray = rhsArray,
                                 !.lhsArray = lhsArray + Width(lhsSpan), !.lhsIter = @ + 1]
                 ELSE [st EXCEPT !.sum = sum, !.oob = @ \/ oob, !.lhsArray = lhsArray,
                                 !.rhsArray = rhsArray + Width(rhsSpan), !.rhsIter = @ + 1]
        ELSE IF yLhs < yRhs
        THEN LET k == SkipRows(h1.spans, st.lhsIter, st.lhsArray, yRhs)
             IN  [st EXCEPT !.lhsIter = k.iter, !.lhsArray = k.array]
        ELSE LET k == SkipRows(h2.spans, st.rhsIter, st.rhsArray, yLhs)
             IN  [st EXCEPT !.rhsIter = k.iter, !.rhsArray = k.array]

DotEnter(h1, h2, st) ==
    [st EXCEPT !.pc = IF DotCondition(h1, h2, st) THEN "loop" ELSE "done"]

DotBegin(l, r) ==
    [pc |-> "loop", l |-> l, r |-> r, lhsIter |-> 1, rhsIter |-> 1,
     lhsArray |-> 0, rhsArray |-> 0, sum |-> 0, oob |-> FALSE]

\* HeavyFootprint::dot run to its return value
RECURSIVE DotLoop(_, _, _)
DotLoop(h1, h2, st) ==
    IF DotCondition(h1, h2, st) THEN DotLoop(h1, h2, DotBody(h1, h2, st)) ELSE st.sum

dot(h1, h2) == DotLoop(h1, h2, DotBegin(1, 2))

DotInit ==
    /\ \E o \in Origins : img = SourceImage("F32", o, 1) /\ img2 = ZeroImage("F32", o)
    /\ heavy = <<NoHeavy, NoHeavy>>
    /\ dotst = [pc |-> "idle"]
    /\ hlast = None

\* the two operands are built from images of different pixel values
DoMakeOperand ==
    /\ dotst.pc # "loop"
    /\ \E slot \in {1, 2} : \E foot \in Footprints(img.xy0) :
        /\ ~heavy[slot].valid
        /\ heavy' = [heavy EXCEPT
                       ![slot] = HeavyCtor(foot, SourceImage(img.type, img.xy0, slot),
                                           CtrlNone).h]
    /\ dotst' = [pc |-> "idle"]
    /\ UNCHANGED <<img, img2, hlast>>
    /\ UNCHANGED notHeavyVars

\* lhs.dot(rhs): the call, up to the first test of the loop condition
DoDotStart ==
    /\ dotst.pc # "loop"
    /\ \E l \in {1, 2} : \E r \in {1, 2} :
        /\ heavy[l].valid /\ heavy[r].valid
        /\ dotst' = DotEnter(heavy[l], heavy[r], DotBegin(l, r))
    /\ UNCHANGED <<img, heavy, img2, hlast>>
    /\ UNCHANGED notHeavyVars

\* one iteration of the loop, up to the next test of the loop condition
DoDotStep ==
    /\ dotst.pc = "loop"
    /\ dotst' = DotEnter(heavy[dotst.l], heavy[dotst.r],
                         DotBody(heavy[dotst.l], heavy[dotst.r], dotst))
    /\ UNCHANGED <<img, heavy, img2, hlast>>
    /\ UNCHANGED notHeavyVars

(***************************************************************************)
(* Bootprint: spans, peak catalog, region.                                 *)
(*                                                                         *)
(* A peak record is [ix, iy, fx, fy, peakValue]; the float positions fx,   *)
(* fy are kept in half pixels, so that the conversion to int is visible.   *)
(***************************************************************************)
Half == 2

\* static_cast<int>(float): truncation towards zero
ToInt(f) == IF f >= 0 THEN f \div Half ELSE -((-f) \div Half)

\* int + float
ToFloat(i) == i * Half

Box(x0, y0, x1, y1) == [minX |-> x0, minY |-> y0, maxX |-> x1, maxY |-> y1]

BoxContains(box, p) ==
    p[1] >= box.minX /\ p[1] <= box.maxX /\ p[2] >= box.minY /\ p[2] <= box.maxY

\* SpanSet::contains(Point2I)
contains(spans, p) ==
    \E i \in DOMAIN spans : spans[i].y = p[2] /\ spans[i].x0 <= p[1] /\ p[1] <= spans[i].x1

\* SpanSet::clippedTo(Box2I)
clippedTo(spans, box) == RunsOf({p \in PixelSet(spans) : BoxContains(box, p)})

\* the structuring element of a stencil of radius r, as offsets
Stencil(r, s) ==
    {k \in ((-r)..r) \X ((-r)..r) :
        \/ s = "BOX"
        \/ s = "MANHATTAN" /\ (IF k[1] >= 0 THEN k[1] ELSE -k[1])
                              + (IF k[2] >= 0 THEN k[2] ELSE -k[2]) <= r}

\* SpanSet::erode: the pixels around which the whole structuring element fits
erode(spans, kernel) ==
    RunsOf({p \in PixelSet(spans) :
               \A k \in kernel : <<p[1] + k[1], p[2] + k[2]>> \in PixelSet(spans)})

\* XYTransformFromWcsPair::forwardTransform, for two WCSs that differ by an offset
forwardTransform(t, p) == <<p[1] + ToFloat(t[1]), p[2] + ToFloat(t[2])>>

\* SpanSet::transformedBy
transformedBy(spans, t) == RunsOf({<<p[1] + t[1], p[2] + t[2]>> : p \in PixelSet(spans)})

\* Bootprint::addPeak
addPeak(f, fx, fy, height) ==
    [f EXCEPT !.peaks = Append(@, [ix |-> ToInt(fx), iy |-> ToInt(fy),
                                   fx |-> fx, fy |-> fy, peakValue |-> height])]

isOrphan(spans, peak) == ~contains(spans, <<peak.ix, peak.iy>>)

\* Bootprint::removeOrphanPeaks: the catalogs the loop can end with.  i is the
\* iterator's offset from begin().  After erase() at begin(), --iter steps before
\* begin(): the iterator is then indeterminate, and so is where ++iter lands.
RECURSIVE OrphanLoop(_, _, _)
OrphanLoop(spans, peaks, i) ==
    IF i = Len(peaks) THEN {peaks}
    ELSE IF isOrphan(spans, peaks[i + 1])
    THEN LET erased == RemoveAt(peaks, i + 1)
         IN  IF i = 0
             THEN UNION {OrphanLoop(spans, erased, j) : j \in 0..Len(erased)}
             ELSE OrphanLoop(spans, erased, i)
    ELSE OrphanLoop(spans, peaks, i + 1)

removeOrphanPeaks(f) == {[f EXCEPT !.peaks = out] : out \in OrphanLoop(f.spans, f.peaks, 0)}

\* Bootprint::clipTo
clipTo(f, box) == removeOrphanPeaks([f EXCEPT !.spans = clippedTo(@, box)])

\* Bootprint::erode(r, s) and Bootprint::erode(SpanSet)
erodeBootprint(f, kernel) == removeOrphanPeaks([f EXCEPT !.spans = erode(@, kernel)])

\* the loop over getPeaks() in Bootprint::transform
RECURSIVE TransformPeaks(_, _, _, _)
TransformPeaks(new, peaks, t, i) ==
    IF i > Len(peaks) THEN new
    ELSE LET newPoint == forwardTransform(t, <<peaks[i].fx, peaks[i].fx>>)
         IN  TransformPeaks(addPeak(new, newPoint[1], newPoint[2], peaks[i].peakValue),
                            peaks, t, i + 1)

\* Bootprint::transform(source, target, region, doClip)
transform(f, t, region, doClip) ==
    LET newBootprint == TransformPeaks([spans |-> transformedBy(f.spans, t),
                                        peaks |-> << >>, region |-> region],
                                       f.peaks, t, 1)
    IN  IF doClip THEN clipTo(newBootprint, region) ELSE {newBootprint}

(***************************************************************************)
(* Persistence of a Bootprint: write through an OutputArchive, read back   *)
(* through the registered factories.                                       *)
(***************************************************************************)
\* the heap while a Bootprint is saved: its SpanSet and itself
BootprintHeap(f) == << SpanSetObj(f.spans), BootprintObj(1, f.peaks) >>

\* the catalogs the index gives to an id
CatalogsOf(a, id) ==
    LET row == CHOOSE r \in Range(a.index) : r.id = id
    IN  [k \in 1..row.count |-> a.cats[row.first + k - 1]]

NameOf(a, id) == (CHOOSE r \in Range(a.index) : r.id = id).name

\* the SpanSet factory: one span per row
SpanSetRead(catalogs) == catalogs[1].rows

\* Bootprint::readSpanSet, the branch of a one-field catalog; the three-field
\* branch reads the legacy rows y, x0, x1
readSpanSet(catalog, a) ==
    LET loadedSpanSet ==
            IF Len(catalog.fields) = 1
            THEN LET persistedSpanSetId == catalog.rows[1].id
                 IN  IF persistedSpanSetId = 0 THEN << >>
                     ELSE SpanSetRead(CatalogsOf(a, persistedSpanSetId))
            ELSE catalog.rows
    IN  [spans |-> loadedSpanSet, peaks |-> << >>, region |-> Box(0, 0, -1, -1)]

\* Bootprint::readPeaks: `auto peaks = loadedBootprint.getPeaks()` is a copy of the
\* catalog, and the records are added to that copy
readPeaks(peakCat, loadedBootprint) ==
    LET peaks == peakCat.rows
        frame == [loadedBootprint |-> loadedBootprint, peaks |-> peaks]
    IN  frame.loadedBootprint

\* BootprintFactory::read
BootprintFactoryRead(a, catalogs) ==
    IF Len(catalogs) # 2 THEN [status |-> "MalformedArchiveError", f |-> None]
    ELSE [status |-> "ok", f |-> readPeaks(catalogs[2], readSpanSet(catalogs[1], a))]

NoFoot == [spans |-> << >>, peaks |-> << >>, region |-> Box(0, 0, -1, -1)]

\* the footprints the machine starts from
StartSpans ==
    { << Span(0, 0, 3), Span(1, 0, 3), Span(2, 0, 3) >>,
      << Span(0, 1, 2), Span(1, 0, 3), Span(2, 1, 1), Span(2, 3, 3) >> }

Region == Box(0, 0, 3, 2)

\* the peaks a caller adds: <<fx, fy, height>>, fx and fy in half pixels
PeakInputs == { <<0, 0, 5>>, <<3, 2, 8>>, <<6, 4, 5>> }

ClipBoxes == { Box(0, 0, 1, 1), Box(1, 1, 3, 2) }

ErodeKernels == { Stencil(1, "BOX"), Stencil(1, "MANHATTAN"), {<<0, 0>>, <<1, 0>>} }

Offsets2 == { <<1, 0>>, <<0, 1>> }

MaxPeaks == 3

FootIdle == fp = NoFoot /\ flast = None /\ saved = None /\ loaded = None

FootInit ==
    /\ \E sp \in StartSpans : fp = [spans |-> sp, peaks |-> << >>, region |-> Region]
    /\ flast = None /\ saved = None /\ loaded = None

\* footprint.addPeak(fx, fy, height)
DoAddPeak ==
    /\ Len(fp.peaks) < MaxPeaks
    /\ \E in \in PeakInputs : fp' = addPeak(fp, in[1], in[2], in[3])
    /\ flast' = None /\ saved' = None /\ loaded' = None
    /\ UNCHANGED notFootVars

\* footprint.clipTo(box)
DoClipTo ==
    /\ \E box \in ClipBoxes : \E out \in clipTo(fp, box) :
         /\ fp' = out
         /\ flast' = [op |-> "clipTo", pre |-> fp, box |-> box]
    /\ saved' = None /\ loaded' = None
    /\ UNCHANGED notFootVars

\* footprint.erode(r, s), footprint.erode(other)
DoErode ==
    /\ \E kernel \in ErodeKernels : \E out \in erodeBootprint(fp, kernel) :
         /\ fp' = out
         /\ flast' = [op |-> "erode", pre |-> fp, kernel |-> kernel]
    /\ saved' = None /\ loaded' = None
    /\ UNCHANGED notFootVars

\* footprint.transform(source, target, region, doClip): a new Bootprint
DoTransform ==
    /\ \E t \in Offsets2 : \E doClip \in BOOLEAN : \E out \in transform(fp, t, Region, doClip) :
         flast' = [op |-> "transform", pre |-> fp, result |-> out, t |-> t, doClip |-> doClip]
    /\ UNCHANGED fp
    /\ saved' = None /\ loaded' = None
    /\ UNCHANGED notFootVars

\* archive.put(footprint) on a new OutputArchive
DoWrite ==
    /\ saved = None
    /\ LET r == PutShared(EmptyArchive, BootprintHeap(fp), 2, FALSE)
       IN  saved' = [a |-> r.a, id |-> r.id]
    /\ flast' = None /\ loaded' = None
    /\ UNCHANGED fp
    /\ UNCHANGED notFootVars

\* InputArchive::get(id) of what was written
DoRead ==
    /\ saved # None /\ loaded = None
    /\ loaded' = BootprintFactoryRead(saved.a, CatalogsOf(saved.a, saved.id))
    /\ UNCHANGED <<fp, flast, saved>>
    /\ UNCHANGED notFootVars

(***************************************************************************)
(* Schemas built field by field, their keys, and key comparison.           *)
(***************************************************************************)
\* the fields added to a schema: type and element count (0: variable length)
Kind(t, c) == [type |-> t, count |-> c]

FieldKinds ==
    {Kind("I32", 1), Kind("I64", 1), Kind("F", 1), Kind("D", 1), Kind("Angle", 1),
     Kind("Flag", 1), Kind("ArrayF", 2), Kind("ArrayD", 0), Kind("ArrayI", 2),
     Kind("String", 0), Kind("String", 3)}

\* the names two schemas give to their fields
FieldNames == << <<"a", "b", "c">>, <<"u", "v", "w">> >>

MaxFields == 2

\* Schema::addField for each kind in turn: a field gets the next 8-byte slot;
\* a Flag gets the next bit of the word of the first Flag
RECURSIVE BuildSchema(_, _, _)
BuildSchema(kinds, names, i) ==
    IF i = 0 THEN << >>
    ELSE LET before == BuildSchema(kinds, names, i - 1)
             flags == {j \in 1..(i - 1) : kinds[j].type = "Flag"}
             k == kinds[i]
         IN  Append(before,
                IF k.type = "Flag" /\ flags # {}
                THEN Item(names[i], "Flag", before[CHOOSE j \in flags : TRUE].offset, 1,
                          Cardinality(flags), FALSE)
                ELSE Item(names[i], k.type, 8 * (i - Cardinality(flags) - 1)
                                            + (IF flags = {} THEN 0 ELSE 8),
                          k.count, 0, k.count = 0))

KindLists == UNION {[1..n -> FieldKinds] : n \in 1..MaxFields}

BuiltSchemas ==
    {BuildSchema(kinds, FieldNames[t], Len(kinds)) : kinds \in KindLists, t \in {1, 2}}

\* Key<T>(): offset -1 and bit 0; the element count is that of
\* FieldBase<T>::makeDefault(), no element for an array or a string
DefaultKey(t) ==
    [type |-> t, offset |-> -1, bit |-> 0,
     count |-> IF t \in {"ArrayF", "ArrayD", "ArrayI", "String"} THEN 0 ELSE 1]

\* the key a schema holds for an item
KeyOf(item) == [type |-> item.type, offset |-> item.offset, count |-> item.count,
                bit |-> item.bit]

\* Key<T>::isValid
isValid(key) == key.offset >= 0

\* only the offsets are compared
KeyEqOffsetOnly(k1, k2) == k1.offset = k2.offset

\* Key<T>::operator== and Key<Flag>::operator==, and the template for another
\* field type
KeyEq(k1, k2) ==
    IF k1.type # k2.type THEN FALSE
    ELSE IF k1.type = "Flag" THEN k1.offset = k2.offset /\ k1.bit = k2.bit
    ELSE k1.offset = k2.offset /\ k1.count = k2.count

FieldTypes == {k.type : k \in FieldKinds}

\* the keys of the built schemas, each with the name its schema gives it, and the
\* default-constructed ones
NamedKeys ==
    {[name |-> it.name, key |-> KeyOf(it)] : it \in UNION {Range(sch) : sch \in BuiltSchemas}}
    \cup {[name |-> "", key |-> DefaultKey(t)] : t \in FieldTypes}

\* key1 == key2
DoKeyCompare ==
    /\ recs = << >> /\ rlast = None
    /\ \E n1 \in NamedKeys : \E n2 \in NamedKeys :
          rlast' = [op |-> "compare", k1 |-> n1, k2 |-> n2, eq |-> KeyEq(n1.key, n2.key)]
    /\ UNCHANGED recs
    /\ UNCHANGED notRecVars

\* a record of a table of one of the built schemas
DoMakeBuilt ==
    /\ recs = << >>
    /\ \E sch \in BuiltSchemas :
          /\ recs' = << [schema |-> sch, data |-> RecordInitializer(sch)] >>
          /\ rlast' = [op |-> "make", tgt |-> 1]
    /\ UNCHANGED notRecVars

\* the schema of the flag machine: four flags in one word and an integer field
FlagSchema ==
    << Item("f0", "Flag", 0, 1, 0, FALSE), Item("f1", "Flag", 0, 1, 1, FALSE),
       Item("f2", "Flag", 0, 1, 2, FALSE), Item("f3", "Flag", 0, 1, 3, FALSE),
       Item("n", "I32", 8, 1, 0, FALSE) >>

FlagInit ==
    /\ recs = << [schema |-> FlagSchema, data |-> RecordInitializer(FlagSchema)] >>
    /\ rlast = None

\* record.set(flagKey, v)
DoSetFlag ==
    /\ \E i \in DOMAIN recs[1].schema : \E v \in BOOLEAN :
          /\ recs[1].schema[i].type = "Flag"
          /\ recs' = [recs EXCEPT ![1].data = RecordSet(@, recs[1].schema[i], v)]
          /\ rlast' = [op |-> "setFlag", key |-> recs[1].schema[i], v |-> v,
                       pre |-> recs[1].data]
    /\ UNCHANGED notRecVars

(***************************************************************************)
(* FitsSchemaInputMapper: the flag keys from the header to readRecord.     *)
(***************************************************************************)
MaxFlags == 3

\* the sequences over S without a repeated element
DistinctSeqs(S) ==
    {q \in UNION {[1..n -> S] : n \in 0..Cardinality(S)} :
        \A i \in DOMAIN q : \A j \in DOMAIN q : i # j => q[i] # q[j]}

\* a keyword of the metadata: its name and, for TTYPEn and the like, its n
Keyword(k, n) == [k |-> k, n |-> n]

\* the FITS columns besides the flag column, numbered from 0
Columns == {0, 1}

\* TFORM values, character by character
Tforms ==
    { <<"1", "J">>, <<"1", "E">>, <<"K">>, <<"2", "K">>, <<"P", "K">>,
      <<"1", "B">>, <<"j">>, <<"3", "E">> }

\* a table header.  afwType: AFW_TYPE is there; tableVersion: AFW_TABLE_VERSION
\* or -1 without one; slot: the value of PSF_FLUX_SLOT or ""; extra: further
\* keywords; arHdu: AR_HDU or -1 without one; alias: the ALIAS cards;
\* flagcol: whether FLAGCOL names a column ("absent": no FLAGCOL, "missing": no
\* such column, "badform": its TFORM is not nX) and nFlags the n of that TFORM;
\* cards: the TTYPEn, TFORMn and TCCLSn keywords of the columns in header
\* order, tform and tccls their values; tflags: the bits of the TFLAGn
\* keywords in header order, after those of the columns
PlainHeader ==
    [afwType |-> FALSE, tableVersion |-> -1, slot |-> "", extra |-> {}, arHdu |-> -1,
     alias |-> "absent", flagcol |-> "absent", nFlags |-> 0, tflags |-> << >>,
     cards |-> << >>, tform |-> [c \in Columns |-> <<"1", "J">>],
     tccls |-> [c \in Columns |-> ""]]

OneColumn == << Keyword("TTYPE", 0), Keyword("TFORM", 0) >>

\* the headers that differ in the flag keywords
FlagHeaders ==
    {[PlainHeader EXCEPT !.flagcol = fc, !.nFlags = n, !.tflags = tf, !.cards = cd] :
        fc \in {"absent", "missing", "badform", "ok"}, n \in 0..MaxFlags,
        tf \in DistinctSeqs(0..MaxFlags), cd \in {<< >>, OneColumn}}

\* the headers that differ in the version, slot, archive and alias keywords
VersionHeaders ==
    {[PlainHeader EXCEPT !.afwType = at, !.tableVersion = tv, !.slot = sl, !.extra = ex,
                         !.arHdu = ah, !.alias = al, !.cards = OneColumn] :
        at \in BOOLEAN, tv \in {-1, 0, 1}, sl \in {"", "flux_psf"},
        ex \in {{}, {Keyword("PSF_FLUX", 0), Keyword("PSF_FLUX_ERR_SLOT", 0),
                     Keyword("PSF_FLUX_FLAG_SLOT", 0), Keyword("OBSERVER", 0)}},
        ah \in {-1, 0, 2}, al \in {"absent", "ok", "malformed"}}

\* the headers that differ in the order and the values of the column keywords
ColumnHeaders ==
    {[PlainHeader EXCEPT !.cards = cd, !.tform = tf, !.tccls = tc] :
        cd \in DistinctSeqs({Keyword(k, c) : k \in {"TTYPE", "TFORM"}, c \in Columns})
               \cup {<< Keyword("TFORM", 1), Keyword("TCCLS", 0), Keyword("TTYPE", 0),
                        Keyword("TFORM", 0) >>},
        tf \in {[c \in Columns |-> IF c = 0 THEN t ELSE <<"1", "E">>] : t \in Tforms},
        tc \in {[c \in Columns |-> IF c = 0 THEN t ELSE ""] : t \in {"", "Covariance"}}}

MapperHeaders ==
    {h \in FlagHeaders \cup VersionHeaders \cup ColumnHeaders :
        h.flagcol # "ok" => h.nFlags = 0}

\* the keywords of a header
Keywords(h) ==
    {Keyword("AFW_TYPE", 0) : x \in {0} \cap (IF h.afwType THEN {0} ELSE {})}
    \cup {Keyword("AFW_TABLE_VERSION", 0) : x \in {v \in {h.tableVersion} : v >= 0}}
    \cup {Keyword("AR_HDU", 0) : x \in {v \in {h.arHdu} : v >= 0}}
    \cup {Keyword("ALIAS", 0) : x \in {a \in {h.alias} : a # "absent"}}
    \cup {Keyword("PSF_FLUX_SLOT", 0) : x \in {t \in {h.slot} : t # ""}}
    \cup {Keyword("FLAGCOL", 0) : x \in {f \in {h.flagcol} : f # "absent"}}
    \cup h.extra
    \cup {Keyword(h.cards[i].k, h.cards[i].n + 1) : i \in DOMAIN h.cards}
    \cup {Keyword("TFLAG", h.tflags[i] + 1) : i \in DOMAIN h.tflags}

\* FitsSchemaItem(column, bit)
FitsSchemaItem(column, bit) ==
    [column |-> column, bit |-> bit, ttype |-> << >>, tform |-> << >>, tccls |-> ""]

\* Schema::VERSION, the current schema version: a positive number, whose value
\* is declared outside these sources
SchemaVersion == 3

\* Impl(), with the metadata and the FITS file the mapper works on
NewMapper ==
    [pc |-> "new", flagKeys |-> << >>, inputs |-> << >>, readers |-> 0,
     schema |-> [fields |-> 0, flags |-> 0, order |-> << >>], word |-> 0,
     version |-> 0, archiveHdu |-> -1, aliases |-> {}, archive |-> FALSE,
     metadata |-> {}, hdu |-> 1, warnings |-> 0]

\* a detection that does not look at AFW_TYPE
DetectVersionNoType(h) ==
    IF h.tableVersion >= 0 THEN h.tableVersion ELSE SchemaVersion

\* the table version the constructor detects
DetectVersion(h) ==
    LET version == IF ~h.afwType THEN SchemaVersion ELSE 0
    IN  IF h.tableVersion >= 0 THEN h.tableVersion ELSE version

\* the TTYPEn, TFORMn, TCCLSn and TFLAGn keywords in header order
Cards(h) == h.cards \o [i \in 1..Len(h.tflags) |-> Keyword("TFLAG", h.tflags[i])]

\* InputContainer::insert: the hashed_unique index on ttype refuses an item
\* whose ttype another item has, and the sequenced index appends
Insert(items, item) ==
    IF \E j \in DOMAIN items : items[j].ttype = item.ttype THEN items
    ELSE Append(items, item)

\* the position insert returns: that of the new item, or of the item that kept
\* it out
Inserted(items, item) ==
    IF \E j \in DOMAIN items : items[j].ttype = item.ttype
    THEN CHOOSE j \in DOMAIN items : items[j].ttype = item.ttype
    ELSE Len(items) + 1

\* the keyword loop of the constructor over the first i keywords: lower_bound
\* finds the item of the column or bit, which is inserted where there is none,
\* and the keyword's value is set on the item at hand
RECURSIVE ReadCards(_, _)
ReadCards(h, i) ==
    IF i = 0 THEN << >>
    ELSE LET before == ReadCards(h, i - 1)
             card == Cards(h)[i]
             fresh == IF card.k = "TFLAG" THEN FitsSchemaItem(-1, card.n)
                      ELSE FitsSchemaItem(card.n, -1)
             found == {j \in DOMAIN before :
                          before[j].column = fresh.column /\ before[j].bit = fresh.bit}
             items == IF found # {} THEN before ELSE Insert(before, fresh)
             iter == IF found # {} THEN CHOOSE j \in found : TRUE
                     ELSE Inserted(before, fresh)
         IN  [items EXCEPT ![iter] =
                IF card.k \in {"TTYPE", "TFLAG"} THEN [@ EXCEPT !.ttype = <<card.k, card.n>>]
                ELSE IF card.k = "TFORM" THEN [@ EXCEPT !.tform = h.tform[card.n]]
                ELSE [@ EXCEPT !.tccls = h.tccls[card.n]]]

\* the keywords the constructor removes when stripMetadata is set
Stripped(h) ==
    {Keyword("AFW_TABLE_VERSION", 0)}
    \cup {Keyword("AR_HDU", 0) : x \in {v \in {h.arHdu} : v > 0}}
    \cup {Keyword("ALIAS", 0) : x \in {a \in {h.alias} : a = "ok"}}
    \cup (IF DetectVersion(h) = 0 /\ h.slot # ""
          THEN {Keyword("PSF_FLUX", 0), Keyword("PSF_FLUX_ERR_SLOT", 0),
                Keyword("PSF_FLUX_FLAG_SLOT", 0)}
          ELSE {})
    \cup {kw \in Keywords(h) : kw.k \in {"TTYPE", "TFORM", "TCCLS", "TFLAG"}}
    \cup {Keyword("FLAGCOL", 0) : x \in {f \in {h.flagcol} : f # "absent"}}
    \cup {Keyword("AFW_TYPE", 0)}

\* the constructor: version, archive HDU, aliases and old slots, then the TTYPEn
\* and TFLAGn keys fill the inputs, then FLAGCOL and the TFORM of its column size
\* flagKeys with default keys
MapperCtor(h, stripMetadata) ==
    IF h.alias = "malformed" \/ h.flagcol \in {"missing", "badform"}
    THEN [NewMapper EXCEPT !.pc = "FitsError"]
    ELSE [NewMapper EXCEPT
            !.pc = "constructed",
            !.version = DetectVersion(h),
            !.archiveHdu = h.arHdu,
            !.aliases = (IF h.alias = "ok" THEN {"alias"} ELSE {})
                        \cup (IF DetectVersion(h) = 0 /\ h.slot # ""
                              THEN {"slot_PsfFlux"} ELSE {}),
            !.inputs = ReadCards(h, Len(Cards(h))),
            !.flagKeys = IF h.flagcol = "ok" THEN [b \in 1..h.nFlags |-> DefaultKey("Flag")]
                         ELSE << >>,
            !.metadata = IF stripMetadata THEN Keywords(h) \ Stripped(h) ELSE Keywords(h)]

Digits == <<"0", "1", "2", "3", "4", "5", "6", "7", "8", "9">>

UpperCase ==
    {"A", "B", "C", "D", "E", "F", "G", "H", "I", "J", "K", "L", "M", "N", "O", "P", "Q",
     "R", "S", "T", "U", "V", "W", "X", "Y", "Z"}

\* the number of digits a string starts with
RECURSIVE LeadingDigits(_)
LeadingDigits(str) ==
    IF str # << >> /\ Head(str) \in Range(Digits) THEN 1 + LeadingDigits(Tail(str)) ELSE 0

\* boost::lexical_cast<int> of a string of digits
RECURSIVE LexicalCast(_)
LexicalCast(str) ==
    IF str = << >> THEN 0
    ELSE 10 * LexicalCast(SubSeq(str, 1, Len(str) - 1))
         + (CHOOSE d \in 0..9 : Digits[d + 1] = str[Len(str)])

\* whether a string matches \(?(\d)*\)?
MatchesTail(str) ==
    LET a == IF str # << >> /\ Head(str) = "(" THEN Tail(str) ELSE str
        b == SubSeq(a, LeadingDigits(a) + 1, Len(a))
    IN  b \in {<< >>, <<")">>}

\* regex_match(tform, m, (\d+)?([PQ])?(\u)\(?(\d)*\)?): the groups 1, 2 and 3,
\* or matched FALSE
MatchTform(tform) ==
    LET n == LeadingDigits(tform)
        rest == SubSeq(tform, n + 1, Len(tform))
        m1 == SubSeq(tform, 1, n)
    IN  IF /\ Len(rest) >= 2
           /\ rest[1] \in {"P", "Q"}
           /\ rest[2] \in UpperCase
           /\ MatchesTail(SubSeq(rest, 3, Len(rest)))
        THEN [matched |-> TRUE, m1 |-> m1, m2 |-> TRUE, m3 |-> rest[2]]
        ELSE IF Len(rest) >= 1 /\ rest[1] \in UpperCase /\ MatchesTail(Tail(rest))
        THEN [matched |-> TRUE, m1 |-> m1, m2 |-> FALSE, m3 |-> rest[1]]
        ELSE [matched |-> FALSE, m1 |-> << >>, m2 |-> FALSE, m3 |-> ""]

\* what makeColumnReader returns
Nullptr == [kind |-> "nullptr", type |-> "", size |-> 0]

Reader(type, size) == [kind |-> "reader", type |-> type, size |-> size]

\* case 'E' of makeColumnReader
FloatReader(size, tccls) ==
    IF size = 0 THEN Reader("Array<float>", 0)
    ELSE IF size = 1
    THEN IF tccls = "Covariance" THEN Reader("Covariance<float>", 1)
         ELSE IF tccls = "Array" THEN Reader("Array<float>", 1)
         ELSE Reader("float", 1)
    ELSE IF size = 3 /\ tccls = "Covariance(Point)" THEN Reader("Covariance<Point<float>>", 3)
    ELSE IF size = 6 /\ tccls = "Covariance(Moments)" THEN Reader("Covariance<Moments<float>>", 6)
    ELSE IF tccls = "Covariance"
    THEN IF \E n \in 0..size : n * (n + 1) = size * 2
         THEN Reader("Covariance<float>", size)
         ELSE [kind |-> "FitsError", type |-> "", size |-> 0]
    ELSE Reader("Array<float>", size)

\* case 'K' of makeColumnReader: with a size other than 1 control runs on into
\* case 'E'
Int64Reader(size, tccls) ==
    IF size = 1 THEN Reader("int64", 1) ELSE FloatReader(size, tccls)

\* makeColumnReader(schema, item): the reader, whose construction adds the field
makeColumnReader(item) ==
    LET m == MatchTform(item.tform)
        size == IF m.m2 THEN 0 ELSE IF m.m1 # << >> THEN LexicalCast(m.m1) ELSE 1
        code == m.m3
        tccls == item.tccls
    IN  IF ~m.matched THEN Nullptr
        ELSE CASE code = "I" ->
                    IF size = 1
                    THEN IF tccls = "Array" THEN Reader("Array<uint16>", 1)
                         ELSE Reader("uint16", 1)
                    ELSE Reader("Array<uint16>", size)
               [] code = "J" ->
                    IF size = 0 THEN Reader("Array<int32>", 0)
                    ELSE IF tccls = "Point" THEN Reader("Point<int32>", size)
                    ELSE IF size > 1 \/ tccls = "Array" THEN Reader("Array<int32>", size)
                    ELSE Reader("int32", 1)
               [] code = "K" -> Int64Reader(size, tccls)
               [] code = "E" -> FloatReader(size, tccls)
               [] code = "D" ->
                    IF size = 0 THEN Reader("Array<double>", 0)
                    ELSE IF size = 1
                    THEN IF tccls = "Angle" THEN Reader("Angle", 1)
                         ELSE IF tccls = "Array" THEN Reader("Array<double>", 1)
                         ELSE Reader("double", 1)
                    ELSE IF size = 2 /\ tccls = "Point" THEN Reader("Point<double>", 2)
                    ELSE IF size = 2 /\ tccls = "Coord" THEN Reader("Coord", 2)
                    ELSE IF size = 3 /\ tccls = "Moments" THEN Reader("Moments<double>", 3)
                    ELSE Reader("Array<double>", size)
               [] code = "A" -> Reader("String", size)
               [] OTHER -> Nullptr

\* Schema::addField<Flag>: the next bit of the word after the fields so far
AddFlagField(schema) ==
    [type |-> "Flag", offset |-> 8 * schema.fields, count |-> 1, bit |-> schema.flags]

\* the loop of finalize over the first i inputs
RECURSIVE FinalizeItems(_, _)
FinalizeItems(m, i) ==
    IF i = 0 THEN m
    ELSE LET b == FinalizeItems(m, i - 1)
             item == m.inputs[i]
         IN  IF b.pc = "FitsError" THEN b
             ELSE IF item.bit < 0
             THEN LET reader == makeColumnReader(item)
                  IN  IF reader.kind = "reader"
                      THEN [b EXCEPT !.readers = @ + 1, !.schema.fields = @ + 1,
                                     !.schema.order =
                                        Append(@, [column |-> item.column,
                                                   type |-> reader.type])]
                      ELSE IF reader.kind = "nullptr"
                      THEN [b EXCEPT !.warnings = @ + 1]
                      ELSE [b EXCEPT !.pc = "FitsError"]
             ELSE IF item.bit >= Len(b.flagKeys)
             THEN [b EXCEPT !.pc = "FitsError"]
             ELSE [b EXCEPT !.flagKeys[item.bit + 1] = AddFlagField(b.schema),
                            !.schema.flags = @ + 1]

\* FitsSchemaInputMapper::finalize
MapperFinalize(m) ==
    LET done == FinalizeItems(m, Len(m.inputs))
    IN  IF done.pc = "FitsError" THEN done
        ELSE [done EXCEPT !.pc = "finalized", !.inputs = << >>]

\* record.set(flagKeys[bit], flagWorkspace[bit]) for the first i bits, on the
\* flag word of the record
RECURSIVE SetFlagKeys(_, _, _, _)
SetFlagKeys(word, keys, workspace, i) ==
    IF i = 0 THEN word
    ELSE FlagSetValue(SetFlagKeys(word, keys, workspace, i - 1), keys[i].bit, workspace[i])

\* the flag words readRecord can leave in the record: a set through a key of
\* offset -1 writes outside the record's buffer, with no defined outcome
ReadRecordWords(m, workspace) ==
    IF \A b \in DOMAIN m.flagKeys : isValid(m.flagKeys[b])
    THEN {SetFlagKeys(m.word, m.flagKeys, workspace, Len(m.flagKeys))}
    ELSE 0..(Pow2(MaxFlags + 1) - 1)

\* what fits.setHdu and InputArchive::readFits can do at the archive HDU: give
\* an archive, fail in the FITS library, or find tables that are no archive
ReadFitsOutcomes == {"archive", "FitsError", "MalformedArchiveError"}

\* FitsSchemaInputMapper::readArchive(fits)
readArchive(m, outcome) ==
    LET oldHdu == m.hdu
        archiveHdu == IF m.archiveHdu < 0 THEN oldHdu + 1 ELSE m.archiveHdu
    IN  CASE outcome = "archive" ->
                [m EXCEPT !.archiveHdu = archiveHdu, !.archive = TRUE, !.hdu = oldHdu]
          [] outcome = "FitsError" ->
                [m EXCEPT !.archiveHdu = -1, !.hdu = oldHdu]
          [] OTHER ->
                [m EXCEPT !.archiveHdu = archiveHdu, !.hdu = archiveHdu]

\* how the call ends
readArchiveResult(outcome) ==
    CASE outcome = "archive" -> "true"
      [] outcome = "FitsError" -> "false"
      [] OTHER -> "raised"

MapIdle == fmap = NewMapper /\ fmlast = None

MapInit == MapIdle

\* FitsSchemaInputMapper(metadata, stripMetadata)
DoMapperConstruct ==
    /\ fmap.pc = "new"
    /\ \E h \in MapperHeaders :
       \E stripMetadata \in BOOLEAN :
          /\ fmap' = MapperCtor(h, stripMetadata)
          /\ fmlast' = [op |-> "construct", passed |-> << >>, values |-> << >>,
                        h |-> h, strip |-> stripMetadata, oldHdu |-> 0,
                        result |-> "none"]
    /\ UNCHANGED notMapVars

\* mapper.readArchive(fits), once, before finalize
DoMapperReadArchive ==
    /\ fmap.pc = "constructed"
    /\ fmlast.op = "construct"
    /\ \E outcome \in ReadFitsOutcomes :
          /\ fmap' = readArchive(fmap, outcome)
          /\ fmlast' = [fmlast EXCEPT !.op = "readArchive", !.oldHdu = fmap.hdu,
                                      !.result = readArchiveResult(outcome)]
    /\ UNCHANGED notMapVars

\* mapper.finalize()
DoMapperFinalize ==
    /\ fmap.pc = "constructed"
    /\ fmap' = MapperFinalize(fmap)
    /\ fmlast' = [fmlast EXCEPT !.op = "finalize"]
    /\ UNCHANGED notMapVars

\* mapper.readRecord(record, fits, row) for the one row of the table, the row's
\* flags being any
DoMapperReadRecord ==
    /\ fmap.pc = "finalized"
    /\ \E workspace \in [1..Len(fmap.flagKeys) -> BOOLEAN] :
       \E w \in ReadRecordWords(fmap, workspace) :
          /\ fmap' = [fmap EXCEPT !.word = w, !.pc = "read"]
          /\ fmlast' = [fmlast EXCEPT !.op = "read", !.passed = fmap.flagKeys,
                                      !.values = workspace]
    /\ UNCHANGED notMapVars

(***************************************************************************)
(* MaskDict: holders of a shared MaskDictImpl.                             *)
(***************************************************************************)
MaxPlanes == 2

PlaneNames == {"BAD", "CR"}

\* the docs of a plane; "" is no doc
PlaneDocs == {"", "d1", "d2"}

\* the MaskDict objects, and the places a MaskDictImpl can live at
MaskHolders == {1, 2}

ImplPtrs == {1, 2}

\* MaskDictImpl(_default): _dict and _docs, -1 where getPlaneId finds no plane;
\* the initial planes are cut down to one
MaskDictImpl(default) ==
    [dict |-> [n \in PlaneNames |-> IF default /\ n = "BAD" THEN 0 ELSE -1],
     docs |-> [n \in PlaneNames |-> IF default /\ n = "BAD" THEN "d1" ELSE ""]]

\* what a holder sees: getMaskPlaneDict() and getMaskPlaneDocDict()
MaskView(m, h) == m.heap[m.hold[h].ptr]

\* getPlaneId
getPlaneId(m, h, name) == MaskView(m, h).dict[name]

UsedPlanes(impl) == {impl.dict[n] : n \in PlaneNames} \ {-1}

\* every new plane takes bit 0
UnusedPlaneZero(impl) == 0

\* the lowest bit id no name of the dictionary is bound to
UnusedPlane(impl) ==
    CHOOSE b \in 0..Cardinality(PlaneNames) :
        /\ b \notin UsedPlanes(impl)
        /\ \A c \in 0..(b - 1) : c \in UsedPlanes(impl)

\* _dict.use_count() > 1
MaskShared(m, h) == \E g \in MaskHolders \ {h} : m.hold[g].ptr = m.hold[h].ptr

\* an impl no holder points to is destroyed
MaskCollect(m) ==
    [m EXCEPT !.heap = [p \in ImplPtrs |->
                          IF \E h \in MaskHolders : m.hold[h].ptr = p THEN m.heap[p]
                          ELSE MaskDictImpl(FALSE)]]

\* make_shared<MaskDictImpl>
FreshImpl(m) == CHOOSE p \in ImplPtrs : \A h \in MaskHolders : m.hold[h].ptr # p

\* the impl is changed where it is, whoever else points to it
MaskWriteInPlace(m, h, impl) == [m EXCEPT !.heap[m.hold[h].ptr] = impl]

\* copy-on-write: a holder that shares its impl gets a changed copy of its own,
\* a sole owner changes its impl
MaskWrite(m, h, impl) ==
    IF MaskShared(m, h)
    THEN [m EXCEPT !.heap[FreshImpl(m)] = impl, !.hold[h].ptr = FreshImpl(m)]
    ELSE [m EXCEPT !.heap[m.hold[h].ptr] = impl]

\* MaskDict::add(name, doc): the five cases of its description
MaskAdd(m, h, name, doc) ==
    LET impl == MaskView(m, h)
        id == impl.dict[name]
        bit == UnusedPlane(impl)
        bound == [impl EXCEPT !.dict[name] = bit, !.docs[name] = doc]
    IN  IF id = -1
        THEN IF bit >= m.hold[h].maxPlanes
             THEN [m |-> m, status |-> "LengthError", id |-> -1]
             ELSE [m |-> MaskWrite(m, h, bound), status |-> "added", id |-> bit]
        ELSE IF impl.docs[name] = doc \/ doc = ""
        THEN [m |-> m, status |-> "kept", id |-> id]
        ELSE IF impl.docs[name] = ""
        THEN [m |-> MaskWrite(m, h, [impl EXCEPT !.docs[name] = doc]),
              status |-> "filled", id |-> id]
        ELSE IF bit >= m.hold[h].maxPlanes
        THEN [m |-> m, status |-> "LengthError", id |-> -1]
        ELSE [m |-> MaskWrite(m, h, bound), status |-> "copied", id |-> bit]

\* MaskDict::remove(name)
MaskRemove(m, h, name) ==
    LET impl == MaskView(m, h)
    IN  IF impl.dict[name] = -1 THEN [m |-> m, status |-> "absent", id |-> -1]
        ELSE [m |-> MaskWrite(m, h, [impl EXCEPT !.dict[name] = -1, !.docs[name] = ""]),
              status |-> "removed", id |-> impl.dict[name]]

\* MaskDict::conformTo(other): this takes the planes of other, sharing them
MaskConformTo(m, h, other) ==
    MaskCollect([m EXCEPT !.hold[h].ptr = m.hold[other].ptr])

\* MaskDict(MaskDict const &) and operator=, both defaulted: the members are
\* copied, the pointer to the impl among them
MaskCopy(m, h, other) == MaskCollect([m EXCEPT !.hold[h] = m.hold[other]])

\* MaskDict::clone, assigned to h: a deep copy
MaskClone(m, h, other) ==
    LET alone == [m EXCEPT !.hold[h].ptr = 0]
        p == CHOOSE q \in ImplPtrs : \A g \in MaskHolders : alone.hold[g].ptr # q
    IN  MaskCollect([m EXCEPT !.heap[p] = MaskView(m, other),
                              !.hold[h] = [m.hold[other] EXCEPT !.ptr = p]])

\* MaskDict(maxPlanes, true) and MaskDict(maxPlanes, false)
MaskStart ==
    [heap |-> [p \in ImplPtrs |-> MaskDictImpl(p = 1)],
     hold |-> [h \in MaskHolders |-> [maxPlanes |-> MaxPlanes, ptr |-> h]]]

NoMaskOp ==
    [op |-> "none", h |-> 0, status |-> "", shared |-> FALSE, other |-> MaskDictImpl(FALSE),
     name |-> "", doc |-> ""]

MaskIdle == mdict = MaskStart /\ mlast = NoMaskOp

MaskInit == MaskIdle

\* the view of the holder that is not h
OtherView(m, h) == MaskView(m, CHOOSE g \in MaskHolders : g # h)

DoMaskAdd ==
    /\ \E h \in MaskHolders : \E name \in PlaneNames : \E doc \in PlaneDocs :
          LET r == MaskAdd(mdict, h, name, doc)
          IN  /\ mdict' = r.m
              /\ mlast' = [op |-> "add", h |-> h, status |-> r.status,
                           shared |-> MaskShared(mdict, h), other |-> OtherView(mdict, h),
                           name |-> name, doc |-> doc]
    /\ UNCHANGED notMaskVars

DoMaskRemove ==
    /\ \E h \in MaskHolders : \E name \in PlaneNames :
          LET r == MaskRemove(mdict, h, name)
          IN  /\ mdict' = r.m
              /\ mlast' = [op |-> "remove", h |-> h, status |-> r.status,
                           shared |-> MaskShared(mdict, h), other |-> OtherView(mdict, h),
                           name |-> name, doc |-> ""]
    /\ UNCHANGED notMaskVars

DoMaskConformTo ==
    /\ \E h \in MaskHolders : \E g \in MaskHolders \ {h} :
          /\ mdict' = MaskConformTo(mdict, h, g)
          /\ mlast' = [NoMaskOp EXCEPT !.op = "conformTo", !.h = h]
    /\ UNCHANGED notMaskVars

DoMaskCopy ==
    /\ \E h \in MaskHolders : \E g \in MaskHolders \ {h} :
          /\ mdict' = MaskCopy(mdict, h, g)
          /\ mlast' = [NoMaskOp EXCEPT !.op = "copy", !.h = h]
    /\ UNCHANGED notMaskVars

DoMaskClone ==
    /\ \E h \in MaskHolders : \E g \in MaskHolders \ {h} :
          /\ mdict' = MaskClone(mdict, h, g)
          /\ mlast' = [NoMaskOp EXCEPT !.op = "clone", !.h = h]
    /\ UNCHANGED notMaskVars

(***************************************************************************)
(* Bootprint: the operations that change the spans.                        *)
(***************************************************************************)
\* the two span lists one after the other
mergeConcat(spans1, spans2) == spans1 \o spans2

\* mergeFootprints(h1, h2): the normalized spans of the union
mergeFootprints(spans1, spans2) == RunsOf(PixelSet(spans1) \cup PixelSet(spans2))

\* SpanSet::dilate: every pixel a pixel of the set reaches by an offset of the
\* structuring element
dilate(spans, kernel) ==
    RunsOf({<<p[1] + k[1], p[2] + k[2]>> : p \in PixelSet(spans), k \in kernel})

\* Bootprint::dilate(r, s) and Bootprint::dilate(SpanSet)
dilateBootprint(f, kernel) == [f EXCEPT !.spans = dilate(@, kernel)]

\* the float positions are left where they were
shiftIntegerOnly(f, dx, dy) ==
    [f EXCEPT !.spans = shiftedBy(@, dx, dy),
              !.peaks = [i \in DOMAIN @ |->
                           [@[i] EXCEPT !.ix = @ + dx, !.iy = @ + dy]]]

\* Bootprint::shift(dx, dy)
shift(f, dx, dy) ==
    [f EXCEPT !.spans = shiftedBy(@, dx, dy),
              !.peaks = [i \in DOMAIN @ |->
                           [@[i] EXCEPT !.ix = @ + dx, !.iy = @ + dy,
                                        !.fx = @ + ToFloat(dx), !.fy = @ + ToFloat(dy)]]]

\* the part of the plane the footprints of the machine stay in
Window == Box(-1, -1, 5, 4)

InWindow(f) ==
    /\ \A p \in PixelSet(f.spans) : BoxContains(Window, p)
    /\ \A i \in DOMAIN f.peaks : BoxContains(Window, <<f.peaks[i].ix, f.peaks[i].iy>>)

ShiftOffsets == { <<1, 0>>, <<-1, 1>>, <<0, -1>> }

DilateKernels == { Stencil(1, "MANHATTAN"), {<<0, 0>>, <<1, 0>>} }

\* the footprints merged into the one under edit
MergeOperands == { << Span(-1, 0, 1) >>, << Span(1, 2, 4), Span(3, 0, 0) >> }

\* the peak catalogs the footprints of the machine start with
StartPeaks ==
    { << >>,
      addPeak(addPeak(NoFoot, 2, 2, 5), 6, 4, 8).peaks }

ShapeInit ==
    /\ \E sp \in StartSpans : \E pk \in StartPeaks :
          fp = [spans |-> sp, peaks |-> pk, region |-> Region]
    /\ flast = None /\ saved = None /\ loaded = None

MaxOps == 4

\* the number of operations applied so far
OpsDone == IF flast.op = "none" THEN 0 ELSE flast.n

\* footprint.clipTo(box)
DoShapeClipTo ==
    /\ OpsDone < MaxOps
    /\ \E box \in ClipBoxes : \E out \in clipTo(fp, box) :
         /\ fp' = out
         /\ flast' = [op |-> "clipTo", n |-> OpsDone + 1]
    /\ saved' = None /\ loaded' = None
    /\ UNCHANGED notFootVars

\* footprint.erode(r, s), footprint.erode(other)
DoShapeErode ==
    /\ OpsDone < MaxOps
    /\ \E kernel \in ErodeKernels : \E out \in erodeBootprint(fp, kernel) :
         /\ fp' = out
         /\ flast' = [op |-> "erode", n |-> OpsDone + 1]
    /\ saved' = None /\ loaded' = None
    /\ UNCHANGED notFootVars

\* footprint.dilate(r, s), footprint.dilate(other)
DoDilate ==
    /\ OpsDone < MaxOps
    /\ \E kernel \in DilateKernels :
         /\ InWindow(dilateBootprint(fp, kernel))
         /\ fp' = dilateBootprint(fp, kernel)
         /\ flast' = [op |-> "dilate", n |-> OpsDone + 1]
    /\ saved' = None /\ loaded' = None
    /\ UNCHANGED notFootVars

\* footprint.shift(dx, dy)
DoShift ==
    /\ OpsDone < MaxOps
    /\ \E d \in ShiftOffsets :
         /\ InWindow(shift(fp, d[1], d[2]))
         /\ fp' = shift(fp, d[1], d[2])
         /\ flast' = [op |-> "shift", n |-> OpsDone + 1, pre |-> fp, d |-> d]
    /\ saved' = None /\ loaded' = None
    /\ UNCHANGED notFootVars

\* the spans become those of mergeFootprints(footprint, other)
DoMergeWith ==
    /\ OpsDone < MaxOps
    /\ \E other \in MergeOperands :
         /\ fp' = [fp EXCEPT !.spans = mergeFootprints(fp.spans, other)]
         /\ flast' = [op |-> "merge", n |-> OpsDone + 1]
    /\ saved' = None /\ loaded' = None
    /\ UNCHANGED notFootVars

(***************************************************************************)
(* Catalog: sort and binary search on a field.                             *)
(***************************************************************************)
MaxCat == 3

\* x:int32, y:int32
CatSchema == << Item("x", "I32", 0, 1, 0, FALSE), Item("y", "I32", 8, 1, 0, FALSE) >>

\* the values of the two fields
CatValues == 0..2

\* the column of a key, first record first (indices from 0, as iterators)
Column(cat, key) == [i \in 0..(Len(cat) - 1) |-> RecordGet(cat[i + 1].data, key)]

\* Catalog::isSorted(key)
isSorted(cat, key) ==
    \A i \in 1..(Len(cat) - 1) :
       ~(RecordGet(cat[i + 1].data, key) < RecordGet(cat[i].data, key))

\* Catalog::sort(key): the orders a comparison sort on the field can leave
CatalogSort(cat, key) ==
    {[i \in 1..Len(cat) |-> cat[p[i]]] : p \in
        {q \in Permutations(1..Len(cat)) :
            \A i \in 1..(Len(cat) - 1) :
               RecordGet(cat[q[i]].data, key) <= RecordGet(cat[q[i + 1]].data, key)}}

\* the search stops at the first element not below or equal to the value
LowerBoundInclusive(col, v, first, len) ==
    CHOOSE i \in {first + len} \cup {j \in first..(first + len - 1) : col[j] > v} :
        \A j \in first..(i - 1) : col[j] <= v

\* std::lower_bound on [first, first + len): halve the range, keep the half
\* that holds the first element not below the value
RECURSIVE LowerBound(_, _, _, _)
LowerBound(col, v, first, len) ==
    IF len <= 0 THEN first
    ELSE LET half == len \div 2
             mid == first + half
         IN  IF col[mid] < v THEN LowerBound(col, v, mid + 1, len - half - 1)
             ELSE LowerBound(col, v, first, half)

\* std::upper_bound
RECURSIVE UpperBound(_, _, _, _)
UpperBound(col, v, first, len) ==
    IF len <= 0 THEN first
    ELSE LET half == len \div 2
             mid == first + half
         IN  IF v < col[mid] THEN UpperBound(col, v, first, half)
             ELSE UpperBound(col, v, mid + 1, len - half - 1)

\* Catalog::find(value, key): the lower bound if it holds the value, else end()
CatalogFind(cat, v, key) ==
    LET col == Column(cat, key)
        i == LowerBound(col, v, 0, Len(cat))
    IN  IF i # Len(cat) /\ col[i] = v THEN i ELSE Len(cat)

\* catalog.addNew() and the set of its two fields
DoCatAddNew ==
    /\ Len(recs) < MaxCat
    /\ \E x \in CatValues : \E y \in CatValues :
          recs' = Append(recs,
                     [schema |-> CatSchema,
                      data |-> RecordSet(RecordSet(RecordInitializer(CatSchema),
                                                   CatSchema[1], x), CatSchema[2], y)])
    /\ rlast' = None
    /\ UNCHANGED notRecVars

\* catalog.sort(key)
DoCatSort ==
    /\ \E key \in Range(CatSchema) : \E sorted \in CatalogSort(recs, key) :
          /\ recs' = sorted
          /\ rlast' = [op |-> "sort", key |-> key, v |-> 0, lower |-> 0, found |-> 0,
                       upper |-> 0, after |-> TRUE]
    /\ UNCHANGED notRecVars

\* catalog.lower_bound(v, key), catalog.find(v, key), catalog.upper_bound(v, key);
\* after tells that the catalog was last sorted on this key and not changed since
DoCatSearch ==
    /\ \E key \in Range(CatSchema) : \E v \in CatValues :
          rlast' = [op |-> "search", key |-> key, v |-> v,
                    lower |-> LowerBound(Column(recs, key), v, 0, Len(recs)),
                    found |-> CatalogFind(recs, v, key),
                    upper |-> UpperBound(Column(recs, key), v, 0, Len(recs)),
                    after |-> rlast.op \in {"sort", "search"} /\ rlast.after
                              /\ rlast.key = key]
    /\ UNCHANGED recs
    /\ UNCHANGED notRecVars

(***************************************************************************)
(* IdFactory.  RecordId is a signed integer of IdBits bits in two's        *)
(* complement (64 in the library); the bit operations work on the          *)
(* unsigned pattern of a value.                                            *)
(***************************************************************************)
IdBits == 5

\* std::numeric_limits<RecordId>::max()
RecordIdMax == Pow2(IdBits - 1) - 1

RecordIds64 == (-Pow2(IdBits - 1))..RecordIdMax

\* the value of a bit pattern, and the bit pattern of a value
ToSigned(u) == IF u >= Pow2(IdBits - 1) THEN u - Pow2(IdBits) ELSE u

ToUnsigned(v) == v % Pow2(IdBits)

IdAnd(a, b) == ToSigned(BitAnd(ToUnsigned(a), ToUnsigned(b)))

IdOr(a, b) == ToSigned(BitOr(ToUnsigned(a), ToUnsigned(b)))

IdNot(a) == -a - 1

\* a << n, the bits shifted out being lost
IdShl(a, n) == ToSigned((ToUnsigned(a) * Pow2(n)) % Pow2(IdBits))

\* a >> n, the sign bit shifted in
IdShr(a, n) == a \div Pow2(n)

\* SimpleIdFactory()
SimpleIdFactory == [kind |-> "simple", current |-> 0]

\* the exposure id is not shifted above the reserved bits
SourceIdFactoryNoShift(expId, reserved) ==
    [kind |-> "source", upper |-> expId,
     upperMask |-> IdShl(RecordIdMax, reserved), lower |-> 0,
     expId |-> expId, reserved |-> reserved]

\* SourceIdFactory(expId, reserved), when the constructor does not throw
SourceIdFactory(expId, reserved) ==
    [kind |-> "source", upper |-> IdShl(expId, reserved),
     upperMask |-> IdShl(RecordIdMax, reserved), lower |-> 0,
     expId |-> expId, reserved |-> reserved]

\* the constructor's test: _upper >> reserved != expId throws
SourceCtorThrows(expId, reserved) == IdShr(IdShl(expId, reserved), reserved) # expId

\* the failed increment is not undone
IdCallNoUndo(f) ==
    IF f.kind = "simple"
    THEN IF f.current = RecordIdMax
         THEN {[f |-> [f EXCEPT !.current = v], status |-> "ok", id |-> v] :
                 v \in RecordIds64}
         ELSE {[f |-> [f EXCEPT !.current = @ + 1], status |-> "ok", id |-> f.current + 1]}
    ELSE IF IdAnd(f.lower + 1, f.upperMask) # 0
         THEN {[f |-> [f EXCEPT !.lower = @ + 1], status |-> "LengthError", id |-> 0]}
         ELSE {[f |-> [f EXCEPT !.lower = @ + 1], status |-> "ok",
                id |-> IdOr(f.upper, f.lower + 1)]}

\* operator(): the outcomes [f, status, id].  ++_current on the largest
\* RecordId overflows a signed integer: any value may come out.
IdCall(f) ==
    IF f.kind = "simple"
    THEN IF f.current = RecordIdMax
         THEN {[f |-> [f EXCEPT !.current = v], status |-> "ok", id |-> v] :
                 v \in RecordIds64}
         ELSE {[f |-> [f EXCEPT !.current = @ + 1], status |-> "ok", id |-> f.current + 1]}
    ELSE IF IdAnd(f.lower + 1, f.upperMask) # 0
         THEN {[f |-> f, status |-> "LengthError", id |-> 0]}
         ELSE {[f |-> [f EXCEPT !.lower = @ + 1], status |-> "ok",
                id |-> IdOr(f.upper, f.lower + 1)]}

\* the sequence is stored without the test against _upperMask
IdNotifyUnchecked(f, id) ==
    IF f.kind = "simple" THEN [f |-> [f EXCEPT !.current = id], status |-> "ok"]
    ELSE [f |-> [f EXCEPT !.lower = IdAnd(id, IdNot(f.upper))], status |-> "ok"]

\* notify(id): [f, status]
IdNotify(f, id) ==
    IF f.kind = "simple" THEN [f |-> [f EXCEPT !.current = id], status |-> "ok"]
    ELSE LET newLower == IdAnd(id, IdNot(f.upper))
         IN  IF IdAnd(newLower, f.upperMask) # 0
             THEN [f |-> f, status |-> "InvalidParameterError"]
             ELSE [f |-> [f EXCEPT !.lower = newLower], status |-> "ok"]

\* the exposure ids and reserved bit counts the factories are made with; one
\* bit at least is left to the exposure id
ExposureIds == {0, 1, 3}

ReservedBits == 0..(IdBits - 2)

Factories ==
    {SimpleIdFactory} \cup
    {SourceIdFactory(e, r) : e \in ExposureIds, r \in ReservedBits}

\* the factories whose constructor returns
MadeFactories ==
    {f \in Factories : f.kind = "source" => ~SourceCtorThrows(f.expId, f.reserved)}

\* the ids of externally numbered records given to notify: ids of this
\* factory's form at both ends of the sequence, ids of another exposure, a
\* negative id and the largest id
NotifyIds(f) ==
    IF f.kind = "simple" THEN {-1, 0, 2, 5, RecordIdMax}
    ELSE {IdOr(f.upper, n) : n \in {0, 1, 2, Pow2(f.reserved) - 2, Pow2(f.reserved) - 1}
                                   \cap 0..(Pow2(f.reserved) - 1)}
         \cup {IdOr(IdShl(f.expId + 1, f.reserved), 1), 1, -1, RecordIdMax}

\* calls of operator() before the first notify, and after each notify
MaxCalls == 10

NoIdGhost == [calls |-> 0, notified |-> FALSE, first |-> 0, last |-> 0, since |-> 0,
              fails |-> 0]

IdIdle == idf = SimpleIdFactory /\ idg = NoIdGhost /\ idlast = None

IdInit == idf \in MadeFactories /\ idg = NoIdGhost /\ idlast = None

\* RecordId id = (*factory)();
DoIdCall ==
    /\ IF idg.notified THEN idg.since < MaxCalls ELSE idg.calls < MaxCalls
    /\ \E out \in IdCall(idf) :
        /\ idf' = out.f
        /\ idlast' = [op |-> "call", status |-> out.status, id |-> out.id, pre |-> idf,
                      prevFails |-> idg.fails]
        /\ idg' = IF out.status = "ok"
                  THEN [idg EXCEPT !.calls = IF idg.notified THEN @ ELSE @ + 1,
                                   !.since = IF idg.notified THEN @ + 1 ELSE @,
                                   !.fails = 0]
                  ELSE [idg EXCEPT !.fails = Min(@ + 1, 2),
                                   !.since = IF idg.notified THEN @ + 1 ELSE @]
    /\ UNCHANGED notIdVars

\* factory->notify(id)
DoIdNotify ==
    /\ \E id \in NotifyIds(idf) :
        LET out == IdNotify(idf, id)
        IN  /\ idf' = out.f
            /\ idlast' = [op |-> "notify", status |-> out.status, id |-> id, pre |-> idf]
            /\ idg' = IF out.status = "ok"
                      THEN [idg EXCEPT !.notified = TRUE,
                                       !.first = IF idg.notified THEN @ ELSE id,
                                       !.last = id, !.since = 0, !.fails = 0]
                      ELSE idg
    /\ UNCHANGED notIdVars

(***************************************************************************)
(* The specifications.                                                     *)
(***************************************************************************)
RecIdle == recs = << >> /\ rlast = None

LaterIdle == IdIdle /\ MapIdle /\ MaskIdle

ArchIdle == arch = EmptyArchive /\ alast = None

InitRecord == RecInit /\ ArchIdle /\ HeavyIdle /\ FootIdle /\ LaterIdle

RecNext == MakeRecord \/ SetField \/ DoAssign \/ DoAssignMapped

SpecRecord == InitRecord /\ [][RecNext]_vars

InitArchive == RecIdle /\ ArchInit /\ HeavyIdle /\ FootIdle /\ LaterIdle

ArchNext == DoPutShared \/ DoPutRaw

SpecArchive == InitArchive /\ [][ArchNext]_vars

InitHeavy == RecIdle /\ ArchIdle /\ HeavyInit /\ FootIdle /\ LaterIdle

HeavyNext == DoMakeHeavy \/ DoInsert

SpecHeavy == InitHeavy /\ [][HeavyNext]_vars

InitDot == RecIdle /\ ArchIdle /\ DotInit /\ FootIdle /\ LaterIdle

DotNext == DoMakeOperand \/ DoDotStart \/ DoDotStep

SpecDot == InitDot /\ [][DotNext]_vars

InitFoot == RecIdle /\ ArchIdle /\ HeavyIdle /\ FootInit /\ LaterIdle

FootNext == DoAddPeak \/ DoClipTo \/ DoErode \/ DoTransform \/ DoWrite \/ DoRead

SpecFoot == InitFoot /\ [][FootNext]_vars

InitShape == RecIdle /\ ArchIdle /\ HeavyIdle /\ ShapeInit /\ LaterIdle

ShapeNext == DoShapeClipTo \/ DoShapeErode \/ DoDilate \/ DoShift \/ DoMergeWith

SpecShape == InitShape /\ [][ShapeNext]_vars

InitKey == RecInit /\ ArchIdle /\ HeavyIdle /\ FootIdle /\ LaterIdle

KeyNext == DoKeyCompare

SpecKey == InitKey /\ [][KeyNext]_vars

BuiltNext == DoMakeBuilt

SpecBuilt == InitKey /\ [][BuiltNext]_vars

InitFlag == FlagInit /\ ArchIdle /\ HeavyIdle /\ FootIdle /\ LaterIdle

FlagNext == DoSetFlag

SpecFlag == InitFlag /\ [][FlagNext]_vars

CatNext == DoCatAddNew \/ DoCatSort \/ DoCatSearch

SpecCat == InitKey /\ [][CatNext]_vars

InitId == RecIdle /\ ArchIdle /\ HeavyIdle /\ FootIdle /\ IdInit /\ MapIdle /\ MaskIdle

InitMapper == RecIdle /\ ArchIdle /\ HeavyIdle /\ FootIdle /\ IdIdle /\ MapInit /\ MaskIdle

InitMask == RecIdle /\ ArchIdle /\ HeavyIdle /\ FootIdle /\ IdIdle /\ MapIdle /\ MaskInit

MaskNext == DoMaskAdd \/ DoMaskRemove \/ DoMaskConformTo \/ DoMaskCopy \/ DoMaskClone

SpecMask == InitMask /\ [][MaskNext]_vars

MapperNext ==
    DoMapperConstruct \/ DoMapperReadArchive \/ DoMapperFinalize \/ DoMapperReadRecord

SpecMapper == InitMapper /\ [][MapperNext]_vars

IdNext == DoIdCall \/ DoIdNotify

SpecId == InitId /\ [][IdNext]_vars

(***************************************************************************)
(* mergeHeavyFootprints.                                                   *)
(***************************************************************************)
\* bbox(h1.getBBox()); bbox.include(h2.getBBox()): the smallest box around both
UnionBBox(spans1, spans2) ==
    LET P == PixelSet(spans1) \cup PixelSet(spans2)
        xs == {q[1] : q \in P}
        ys == {q[2] : q \in P}
    IN  IF P = {} THEN Box(0, 0, -1, -1)
        ELSE Box(CHOOSE v \in xs : \A x \in xs : v <= x,
                 CHOOSE v \in ys : \A y \in ys : v <= y,
                 CHOOSE v \in xs : \A x \in xs : v >= x,
                 CHOOSE v \in ys : \A y \in ys : v >= y)

\* MaskedImage(bbox): planes of the size of bbox, every pixel zero, origin at its
\* minimum corner
ScratchImage(T, bbox) ==
    LET dom == (0..(bbox.maxX - bbox.minX)) \X (0..(bbox.maxY - bbox.minY))
    IN  [type |-> T, xy0 |-> <<bbox.minX, bbox.minY>>,
         image |-> [q \in dom |-> 0], mask |-> [q \in dom |-> 0],
         variance |-> [q \in dom |-> 0]]

\* MaskedImage::operator+=: images and variances added, masks or-ed
AddImages(im1, im2) ==
    [im1 EXCEPT !.image = [q \in DOMAIN @ |-> @[q] + im2.image[q]],
                !.mask = [q \in DOMAIN @ |-> BitOr(@[q], im2.mask[q])],
                !.variance = [q \in DOMAIN @ |-> @[q] + im2.variance[q]]]

\* im2 is inserted but never added
mergeKeepFirst(h1, h2) ==
    LET foot == mergeFootprints(h1.spans, h2.spans)
        bbox == UnionBBox(h1.spans, h2.spans)
        im1 == HeavyInsert(h1, ScratchImage(h1.from.type, bbox))
    IN  HeavyCtor(foot, im1, CtrlNone).h

\* mergeHeavyFootprints(h1, h2)
mergeHeavyFootprints(h1, h2) ==
    LET foot == mergeFootprints(h1.spans, h2.spans)
        bbox == UnionBBox(h1.spans, h2.spans)
        im1 == HeavyInsert(h1, ScratchImage(h1.from.type, bbox))
        im2 == HeavyInsert(h2, ScratchImage(h1.from.type, bbox))
    IN  HeavyCtor(foot, AddImages(im1, im2), CtrlNone).h

\* mergeHeavyFootprints on two operands that have been built
DoMerge ==
    /\ dotst.pc = "idle" /\ hlast = None
    /\ \E l \in {1, 2} : \E r \in {1, 2} :
        /\ heavy[l].valid /\ heavy[r].valid
        /\ hlast' = [op |-> "merge", l |-> l, r |-> r,
                     result |-> mergeHeavyFootprints(heavy[l], heavy[r])]
    /\ UNCHANGED <<img, heavy, img2, dotst>>
    /\ UNCHANGED notHeavyVars

MergeNext == DoMakeOperand \/ DoMerge

SpecMerge == InitDot /\ [][MergeNext]_vars

(***************************************************************************)
(* Record assignment.                                                      *)
(***************************************************************************)
TargetOf(l) == recs[l.tgt]

\* C1: after r2.assign(r) on a freshly created r2 of r's table, every key of the
\* schema reads the same through r2 as through r, the Flag keys that share a
\* storage word included (a NaN field of r reads NaN through r2)
AssignRoundTrip ==
    (/\ rlast.op = "assign" /\ rlast.status = "ok"
     /\ rlast.pre = RecordInitializer(TargetOf(rlast).schema))
    => \A k \in Range(TargetOf(rlast).schema) :
          RecordGet(TargetOf(rlast).data, k) = RecordGet(rlast.srcData, k)

\* a fresh record was assigned from another one whose first flag is set, whose
\* second flag is clear and whose double is no longer NaN
AssignRoundTripWitness ==
    /\ rlast.op = "assign" /\ rlast.status = "ok" /\ rlast.tgt # rlast.src
    /\ rlast.pre = RecordInitializer(TargetOf(rlast).schema)
    /\ TargetOf(rlast).schema = SchemaB
    /\ RecordGet(rlast.srcData, SchemaB[2]) /\ ~RecordGet(rlast.srcData, SchemaB[3])
    /\ RecordGet(rlast.srcData, SchemaB[4]) = Double(1)
    /\ RecordGet(rlast.srcData, SchemaB[5]) = <<7>>

\* C2: assign(other) ends in a logic error whenever the schemas are unequal,
\* assign(other, mapper) whenever other's schema does not contain the mapper's
\* input schema or the target's does not contain its output schema, and after
\* such a failure the target record holds what it held before
AssignRejectsMismatch ==
    /\ (rlast.op = "assign"
        /\ ~SchemaEq(TargetOf(rlast).schema, recs[rlast.src].schema))
       => rlast.status = "LogicError"
    /\ (rlast.op = "assignMapped"
        /\ (\/ ~SchemaContains(recs[rlast.src].schema, rlast.mapper.input)
            \/ ~SchemaContains(TargetOf(rlast).schema, rlast.mapper.output)))
       => rlast.status = "LogicError"
    /\ (rlast.op \in {"assign", "assignMapped"} /\ rlast.status = "LogicError")
       => TargetOf(rlast).data = rlast.pre

\* assign failed between a SchemaA target and a SchemaB source that holds values
\* for the fields they share
AssignRejectsMismatchWitness ==
    /\ rlast.op = "assign" /\ rlast.status = "LogicError"
    /\ TargetOf(rlast).schema = SchemaA /\ recs[rlast.src].schema = SchemaB
    /\ RecordGet(rlast.srcData, SchemaB[1]) = 1
    /\ RecordGet(rlast.srcData, SchemaB[3])

(***************************************************************************)
(* OutputArchive.                                                          *)
(***************************************************************************)
RowsOf(o) == {i \in DOMAIN arch.index : arch.index[i].obj = o}

\* C3: ids and saved shared objects correspond one to one, nested puts included:
\* no two rows of the index share an id, a shared object has at most one row and
\* it carries the id of the pointer map, and a put of an object that is already
\* in the map returns that id and leaves the archive as it was
ArchiveIdentity ==
    /\ \A i, j \in DOMAIN arch.index : i # j => arch.index[i].id # arch.index[j].id
    /\ \A o \in SharedObjects : Cardinality(RowsOf(o)) <= 1
    /\ \A o \in DOMAIN arch.map : \A i \in RowsOf(o) : arch.index[i].id = arch.map[o]
    /\ \A o \in SharedObjects : RowsOf(o) # {} => o \in DOMAIN arch.map
    /\ \A o1, o2 \in DOMAIN arch.map : o1 # o2 => arch.map[o1] # arch.map[o2]
    /\ (alast.op = "putShared" /\ alast.obj \in DOMAIN alast.pre.map)
       => (alast.id = alast.pre.map[alast.obj] /\ arch = alast.pre)

\* the SpanSet shared by two saved Bootprints was put again
ArchiveIdentityWitness ==
    /\ alast.op = "putShared" /\ alast.obj = 1
    /\ RowsOf(3) # {} /\ RowsOf(4) # {} /\ RowsOf(6) # {}
    /\ alast.obj \in DOMAIN alast.pre.map

\* C4: a put of the null pointer returns 0 and leaves the archive as it was, also
\* when it is the nested put of a Bootprint without SpanSet, and no row of the
\* index and no entry of the pointer map carries id 0
NullIsZero ==
    /\ (alast.op \in {"putShared", "putRaw"} /\ alast.obj = Null)
       => (alast.id = 0 /\ arch = alast.pre)
    /\ \A i \in DOMAIN arch.index : arch.index[i].id # 0 /\ arch.index[i].obj # Null
    /\ \A o \in DOMAIN arch.map : arch.map[o] # 0
    /\ \A i \in DOMAIN arch.index :
          arch.index[i].name = "Bootprint"
          => (arch.cats[arch.index[i].first].rows[1].id = 0
              <=> ArchiveHeap[arch.index[i].obj].spansRef = Null)

\* the null pointer was put after a Bootprint without SpanSet and another object
NullIsZeroWitness ==
    /\ alast.op = "putRaw" /\ alast.obj = Null
    /\ RowsOf(5) # {} /\ RowsOf(3) # {}

(***************************************************************************)
(* HeavyFootprint.                                                         *)
(***************************************************************************)
Parent(mimage, q) == <<q[1] + mimage.xy0[1], q[2] + mimage.xy0[2]>>

\* C5: after the heavy footprint built from (F, I) is inserted into I2, every
\* plane of I2 equals I at the pixels of F and holds what it held before (zero
\* for a zero-initialized I2) everywhere else
HeavyRoundTrip ==
    hlast.op = "insert"
    => \A q \in Grid :
          IF Parent(img2, q) \in PixelSet(heavy[1].spans)
          THEN /\ img2.image[q] = heavy[1].from.image[q]
               /\ img2.mask[q] = heavy[1].from.mask[q]
               /\ img2.variance[q] = heavy[1].from.variance[q]
          ELSE /\ img2.image[q] = hlast.pre.image[q]
               /\ img2.mask[q] = hlast.pre.mask[q]
               /\ img2.variance[q] = hlast.pre.variance[q]

\* a footprint of two spans, in an image whose origin is not (0, 0), was inserted
\* into a zero image
HeavyRoundTripWitness ==
    /\ hlast.op = "insert" /\ hlast.pre = ZeroImage(img2.type, img2.xy0)
    /\ img2.xy0 = <<2, 1>>
    /\ heavy[1].spans = << Span(1, 3, 4), Span(2, 2, 2) >>

\* the image value a heavy footprint holds for pixel p
ValueAt(h, p) ==
    LET px == SpanPixels(h.spans, 1)
    IN  h.image[CHOOSE i \in DOMAIN px : px[i] = p]

\* the sum of f over the set S
RECURSIVE SumOver(_, _)
SumOver(S, f) ==
    IF S = {} THEN 0
    ELSE LET e == CHOOSE x \in S : TRUE IN f[e] + SumOver(S \ {e}, f)

\* C6: dot returns the sum, over the pixels in both footprints, of the products of
\* the two image values; it is the same in both orders, the sum of squares for a
\* footprint with itself, and 0 for disjoint footprints
DotIsOverlapSum ==
    dotst.pc = "done"
    => LET h1 == heavy[dotst.l]
           h2 == heavy[dotst.r]
           both == PixelSet(h1.spans) \cap PixelSet(h2.spans)
       IN  /\ dotst.sum = SumOver(both, [p \in both |-> ValueAt(h1, p) * ValueAt(h2, p)])
           /\ dotst.sum = dot(h2, h1)
           /\ dotst.l = dotst.r
              => dotst.sum = SumOver(DOMAIN h1.image, [i \in DOMAIN h1.image |-> h1.image[i] * h1.image[i]])
           /\ both = {} => dotst.sum = 0

\* dot has returned for two different footprints of two spans each that overlap
\* in part
DotIsOverlapSumWitness ==
    /\ dotst.pc = "done" /\ dotst.l # dotst.r
    /\ Len(heavy[dotst.l].spans) = 2 /\ Len(heavy[dotst.r].spans) = 3
    /\ heavy[dotst.l].spans[1].y = heavy[dotst.l].spans[2].y
    /\ PixelSet(heavy[dotst.l].spans) \cap PixelSet(heavy[dotst.r].spans) # {}
    /\ PixelSet(heavy[dotst.l].spans) \ PixelSet(heavy[dotst.r].spans) # {}
    /\ PixelSet(heavy[dotst.r].spans) \ PixelSet(heavy[dotst.l].spans) # {}

\* C10: after a HeavyFootprint is built with the SET policy, every pixel of the
\* source image, mask and variance planes inside the footprint equals the value
\* given for that plane, whatever the pixel type, and the others are unchanged
SetPolicySetsPixels ==
    (hlast.op = "make" /\ hlast.ctrl.modifySource = "SET")
    => \A q \in Grid :
          IF Parent(img, q) \in PixelSet(hlast.foot)
          THEN /\ img.image[q] = hlast.ctrl.imageVal
               /\ img.mask[q] = hlast.ctrl.maskVal
               /\ img.variance[q] = hlast.ctrl.varianceVal
          ELSE /\ img.image[q] = hlast.pre.image[q]
               /\ img.mask[q] = hlast.pre.mask[q]
               /\ img.variance[q] = hlast.pre.variance[q]

\* h's image value at pixel p, 0 outside h
ValueOrZero(h, p) == IF p \in PixelSet(h.spans) THEN ValueAt(h, p) ELSE 0

\* C11: mergeHeavyFootprints(h1, h2) returns a heavy footprint whose spans cover
\* exactly the union of the inputs' pixels and whose image value at each pixel of
\* the union is h1's value there (0 outside h1) plus h2's value there (0 outside
\* h2)
MergeIsSum ==
    hlast.op = "merge"
    => LET h1 == heavy[hlast.l]
           h2 == heavy[hlast.r]
           both == PixelSet(h1.spans) \cup PixelSet(h2.spans)
       IN  /\ PixelSet(hlast.result.spans) = both
           /\ isNormalized(hlast.result.spans)
           /\ Len(hlast.result.image) = Cardinality(both)
           /\ \A p \in both :
                 ValueAt(hlast.result, p) = ValueOrZero(h1, p) + ValueOrZero(h2, p)

\* two different footprints that overlap in part, away from the origin, were merged
MergeIsSumWitness ==
    /\ hlast.op = "merge" /\ hlast.l # hlast.r
    /\ img.xy0 = <<2, 1>>
    /\ PixelSet(heavy[1].spans) \cap PixelSet(heavy[2].spans) # {}
    /\ PixelSet(heavy[1].spans) \ PixelSet(heavy[2].spans) # {}
    /\ PixelSet(heavy[2].spans) \ PixelSet(heavy[1].spans) # {}
    /\ Len(hlast.result.spans) = 3

(***************************************************************************)
(* IdFactory.                                                              *)
(***************************************************************************)
\* the exposure id above the reserved bits
UpperOf(f) == IdShl(f.expId, f.reserved)

\* the low reserved bits of an id
LowBits(f, id) == IdAnd(id, Pow2(f.reserved) - 1)

\* C12: on a factory that was never notified the k-th call of operator() returns
\* k (simple factory) or (expId << reserved) | k (partitioned factory, which
\* refuses only once 2^reserved - 1 ids were returned): the id is larger than
\* each id returned before, and a partitioned id carries the exposure id in its
\* high bits
FreshIdsCount ==
    (idlast.op = "call" /\ ~idg.notified)
    => IF idf.kind = "simple"
       THEN /\ idlast.status = "ok" /\ idg.calls >= 1
            /\ idlast.id = idg.calls
       ELSE /\ idlast.status = "ok"
               => /\ idg.calls >= 1
                  /\ idlast.id = IdOr(UpperOf(idf), idg.calls)
                  /\ IdShr(idlast.id, idf.reserved) = idf.expId
                  /\ \A j \in 1..(idg.calls - 1) : IdOr(UpperOf(idf), j) < idlast.id
            /\ idlast.status # "ok"
               => idlast.status = "LengthError" /\ idg.calls = Pow2(idf.reserved) - 1

\* the third id of the factory of exposure 3 with two reserved bits
FreshIdsCountWitness ==
    /\ idlast.op = "call" /\ ~idg.notified /\ idlast.status = "ok"
    /\ idf.kind = "source" /\ idf.expId = 3 /\ idf.reserved = 2
    /\ idg.calls = 3 /\ idlast.id = 15

\* C13: when the sequence of the partitioned factory stands at 2^reserved - 1,
\* operator() fails with a length error and leaves the factory as it was, a call
\* that follows a failed call fails too, and every id the factory returns has the
\* exposure id in its high bits
SequenceOverflowFails ==
    (idlast.op = "call" /\ idlast.pre.kind = "source")
    => /\ idlast.pre.lower = Pow2(idlast.pre.reserved) - 1
          => (idlast.status = "LengthError" /\ idf = idlast.pre)
       /\ idlast.prevFails >= 1 => idlast.status = "LengthError"
       /\ idlast.status = "ok" => IdShr(idlast.id, idf.reserved) = idf.expId

\* the second failing call in a row, on a factory with two reserved bits
SequenceOverflowFailsWitness ==
    /\ idlast.op = "call" /\ idlast.status = "LengthError" /\ idlast.prevFails >= 1
    /\ idf.kind = "source" /\ idf.reserved = 2 /\ idf.expId = 1 /\ idf.lower = 3
    /\ ~idg.notified /\ idg.calls = 3

\* C14 as stated: the call that follows notify(id) returns id + 1 (simple
\* factory) or (expId << reserved) | (n + 1), n being id's low reserved bits
\* (partitioned factory), and no call made after a notify returns a notified id
NotifyResyncs ==
    (idlast.op = "call" /\ idg.notified)
    => /\ idg.since = 1
          => /\ idlast.status = "ok"
             /\ idlast.id = IF idf.kind = "simple" THEN idg.last + 1
                            ELSE IdOr(UpperOf(idf), LowBits(idf, idg.last) + 1)
       /\ idlast.status = "ok" => (idlast.id # idg.first /\ idlast.id # idg.last)

\* C14, amended: the call that follows a successful notify(id) returns id + 1
\* on the simple factory (id below the largest RecordId) and
\* (expId << reserved) | (n + 1) on the partitioned factory when
\* n < 2^reserved - 1, and fails with a length error when n = 2^reserved - 1;
\* until the next notify no call returns id
NotifyResyncsUntilNext ==
    (idlast.op = "call" /\ idg.notified)
    => IF idf.kind = "simple"
       THEN idg.last # RecordIdMax
            => /\ idlast.status = "ok" /\ idlast.id # idg.last
               /\ idg.since = 1 => idlast.id = idg.last + 1
       ELSE /\ idg.since = 1
               => IF LowBits(idf, idg.last) = Pow2(idf.reserved) - 1
                  THEN idlast.status = "LengthError"
                  ELSE /\ idlast.status = "ok"
                       /\ idlast.id = IdOr(UpperOf(idf), LowBits(idf, idg.last) + 1)
            /\ idlast.status = "ok" => idlast.id # idg.last

\* the first call after the second notify of a partitioned factory
NotifyResyncsUntilNextWitness ==
    /\ idlast.op = "call" /\ idg.notified /\ idg.since = 1 /\ idlast.status = "ok"
    /\ idf.kind = "source" /\ idf.expId = 1 /\ idf.reserved = 3
    /\ idg.first = 14 /\ idg.last = 9 /\ idlast.id = 10

(***************************************************************************)
(* Keys, flags and fresh records.                                          *)
(***************************************************************************)
\* C15: two keys of the same field type compare equal exactly when their offsets
\* and element counts agree (offsets and bits for Flag keys), whatever schema and
\* field name each comes from; keys of different field types never compare equal
KeysCompareStructurally ==
    rlast.op = "compare"
    => LET k1 == rlast.k1.key
           k2 == rlast.k2.key
       IN  /\ k1.type # k2.type => ~rlast.eq
           /\ (k1.type = k2.type /\ k1.type = "Flag")
              => (rlast.eq <=> (k1.offset = k2.offset /\ k1.bit = k2.bit))
           /\ (k1.type = k2.type /\ k1.type # "Flag")
              => (rlast.eq <=> (k1.offset = k2.offset /\ k1.count = k2.count))

\* the key of the second field, a fixed array, of one schema compared equal
\* to the key another schema holds under another name
KeysCompareStructurallyWitness ==
    /\ rlast.op = "compare" /\ rlast.eq
    /\ rlast.k1.name = "b" /\ rlast.k2.name = "v"
    /\ rlast.k1.key.type = "ArrayF" /\ rlast.k1.key.offset = 8

\* C17: a set through a Flag key makes get of that key return the value set and
\* leaves what get returns for every other key of the record, the Flag keys of the
\* same word included, as it was, after any sequence of flag sets
FlagSetTouchesOneBit ==
    rlast.op = "setFlag"
    => /\ RecordGet(recs[1].data, rlast.key) = rlast.v
       /\ \A k \in Range(recs[1].schema) \ {rlast.key} :
             RecordGet(recs[1].data, k) = RecordGet(rlast.pre, k)

\* the middle flag was cleared while its two neighbours in the word were set
FlagSetTouchesOneBitWitness ==
    /\ rlast.op = "setFlag" /\ rlast.key.bit = 1 /\ ~rlast.v
    /\ RecordGet(rlast.pre, FlagSchema[2])
    /\ RecordGet(recs[1].data, FlagSchema[1]) /\ RecordGet(recs[1].data, FlagSchema[3])

\* C18: in a record just constructed each floating-point field, each element of a
\* fixed-size floating-point array and each Angle is NaN, each integer field and
\* each Flag is zero, and each variable-length array or string is empty
FreshRecordDefaults ==
    rlast.op = "make"
    => \A k \in Range(recs[rlast.tgt].schema) :
          LET v == RecordGet(recs[rlast.tgt].data, k)
          IN  /\ k.type \in {"F", "D", "Angle"} => v = quiet_NaN
              /\ (k.type \in {"ArrayF", "ArrayD"} /\ ~k.varlen)
                 => (Len(v) = k.count /\ \A e \in DOMAIN v : v[e] = quiet_NaN)
              /\ k.type \in {"I32", "I64"} => v = 0
              /\ (k.type = "ArrayI" /\ ~k.varlen)
                 => (Len(v) = k.count /\ \A e \in DOMAIN v : v[e] = 0)
              /\ k.type = "Flag" => v = FALSE
              /\ k.varlen => v = << >>

\* a record with an Angle and a fixed array of floats was made
FreshRecordDefaultsWitness ==
    /\ rlast.op = "make" /\ Len(recs[1].schema) = 2
    /\ recs[1].schema[1].type = "Angle" /\ recs[1].schema[2].type = "ArrayF"

\* C16: a default-constructed Key is invalid, with offset -1, and every flag Key
\* that readRecord passes to record.set is a valid one assigned by finalize,
\* whatever header the constructor accepted
ReadFlagKeysValid ==
    /\ \A t \in FieldTypes : ~isValid(DefaultKey(t)) /\ DefaultKey(t).offset = -1
    /\ fmlast.op = "read" => \A b \in DOMAIN fmlast.passed : isValid(fmlast.passed[b])

SpansStayNormalized == isNormalized(fp.spans)

\* a footprint of several spans in one row that was shifted, dilated and merged
SpansStayNormalizedWitness ==
    /\ flast.op = "merge"
    /\ \E i \in 1..(Len(fp.spans) - 1) : fp.spans[i].y = fp.spans[i + 1].y
    /\ \E i \in DOMAIN fp.spans : fp.spans[i].x0 < 0
    /\ getNpix(fp.spans) > 14

\* C23: shift(dx, dy) adds (dx, dy) to every span and to the integer and the
\* floating-point position of every peak, and leaves the number and the order of
\* the peaks, their values and the pixel count of the footprint as they were
ShiftMovesAll ==
    flast.op = "shift"
    => LET pre == flast.pre
           dx == flast.d[1]
           dy == flast.d[2]
       IN  /\ Len(fp.spans) = Len(pre.spans)
           /\ \A i \in DOMAIN fp.spans :
                 fp.spans[i] = Span(pre.spans[i].y + dy, pre.spans[i].x0 + dx,
                                    pre.spans[i].x1 + dx)
           /\ Len(fp.peaks) = Len(pre.peaks)
           /\ \A i \in DOMAIN fp.peaks :
                 /\ fp.peaks[i].ix = pre.peaks[i].ix + dx
                 /\ fp.peaks[i].iy = pre.peaks[i].iy + dy
                 /\ fp.peaks[i].fx = pre.peaks[i].fx + dx * Half
                 /\ fp.peaks[i].fy = pre.peaks[i].fy + dy * Half
                 /\ fp.peaks[i].peakValue = pre.peaks[i].peakValue
           /\ getNpix(fp.spans) = getNpix(pre.spans)

\* a footprint with two peaks of different values was shifted left and down
ShiftMovesAllWitness ==
    /\ flast.op = "shift" /\ flast.d = <<-1, 1>>
    /\ Len(fp.peaks) = 2 /\ fp.peaks[1].peakValue # fp.peaks[2].peakValue
    /\ Len(fp.spans) > 2

(***************************************************************************)
(* Catalog.                                                                *)
(***************************************************************************)
\* C21: after sort(k) the catalog is sorted on k, and for every value v some
\* record holds, lower_bound(v, k) <= find(v, k) < upper_bound(v, k) and the
\* record find returns holds v in the field
SortThenSearch ==
    /\ rlast.op = "sort" => isSorted(recs, rlast.key)
    /\ (rlast.op = "search" /\ rlast.after
        /\ \E i \in DOMAIN recs : RecordGet(recs[i].data, rlast.key) = rlast.v)
       => /\ rlast.lower <= rlast.found
          /\ rlast.found < rlast.upper
          /\ rlast.found < Len(recs)
          /\ RecordGet(recs[rlast.found + 1].data, rlast.key) = rlast.v

\* a value two of three records hold was searched after the sort; find gave
\* the second record
SortThenSearchWitness ==
    /\ rlast.op = "search" /\ rlast.after /\ Len(recs) = 3
    /\ rlast.lower = 1 /\ rlast.found = 1 /\ rlast.upper = 3
    /\ rlast.key.name = "y"
    /\ RecordGet(recs[1].data, CatSchema[1]) > RecordGet(recs[2].data, CatSchema[1])

(***************************************************************************)
(* Bootprint.                                                              *)
(***************************************************************************)
Inside(spans, peaks) == SelectSeq(peaks, LAMBDA pk : contains(spans, <<pk.ix, pk.iy>>))

Moved(pk, t) ==
    LET newPoint == forwardTransform(t, <<pk.fx, pk.fy>>)
    IN  [ix |-> ToInt(newPoint[1]), iy |-> ToInt(newPoint[2]),
         fx |-> newPoint[1], fy |-> newPoint[2], peakValue |-> pk.peakValue]

\* C8: transform returns a footprint with, for every peak of the input, a peak at
\* the image of (fx, fy) with the same value; with doClip only the peaks outside
\* the clipped spans are dropped
TransformMapsPeaks ==
    flast.op = "transform"
    => LET moved == [i \in DOMAIN flast.pre.peaks |-> Moved(flast.pre.peaks[i], flast.t)]
       IN  IF flast.doClip
           THEN flast.result.peaks = Inside(flast.result.spans, moved)
           ELSE flast.result.peaks = moved

\* C9: a footprint is written as two catalogs, spans then peaks, and reading them
\* back gives the same spans and an equal peak catalog
PersistRoundTrip ==
    loaded # None
    => /\ loaded.status = "ok"
       /\ Len(CatalogsOf(saved.a, saved.id)) = 2
       /\ CatalogsOf(saved.a, saved.id)[1].fields = SpanSetIdFields
       /\ CatalogsOf(saved.a, saved.id)[2].fields = PeakFields
       /\ loaded.f.spans = fp.spans
       /\ loaded.f.peaks = fp.peaks

(***************************************************************************)
(* FitsSchemaInputMapper: the constructor.                                 *)
(***************************************************************************)
\* the version a header stands for: AFW_TABLE_VERSION where there is one, else 0
\* with AFW_TYPE, else the schema default
HeaderVersion(h) ==
    CASE h.tableVersion >= 0 -> h.tableVersion
      [] h.tableVersion < 0 /\ h.afwType -> 0
      [] OTHER -> SchemaVersion

\* C24: a constructed mapper holds the version of its header, and it made the
\* slot alias of a <SLOT>_SLOT keyword exactly when that version is 0
LegacySlotsAtVersionZero ==
    fmap.pc \in {"constructed", "finalized", "read"}
    => /\ fmap.version = HeaderVersion(fmlast.h)
       /\ fmlast.h.slot # ""
          => ("slot_PsfFlux" \in fmap.aliases <=> HeaderVersion(fmlast.h) = 0)

LegacySlotsAtVersionZeroWitness ==
    /\ fmap.pc = "constructed"
    /\ fmlast.h.slot # ""
    /\ fmlast.h.afwType
    /\ fmlast.h.tableVersion < 0
    /\ "slot_PsfFlux" \in fmap.aliases

\* the keywords of a header the constructor reads its state from
Consumed(h) ==
    {kw \in Keywords(h) :
        \/ kw.k \in {"AFW_TYPE", "AFW_TABLE_VERSION", "AR_HDU", "ALIAS", "FLAGCOL",
                     "TTYPE", "TFORM", "TCCLS", "TFLAG"}
        \/ /\ HeaderVersion(h) = 0
           /\ h.slot # ""
           /\ kw.k \in {"PSF_FLUX_SLOT", "PSF_FLUX_ERR_SLOT", "PSF_FLUX_FLAG_SLOT"}}

\* C29: after a construction with stripMetadata the metadata holds the keywords
\* of the header that the constructor did not consume, and no other
StripRemovesConsumed ==
    (fmap.pc = "constructed" /\ fmlast.strip)
    => fmap.metadata = Keywords(fmlast.h) \ Consumed(fmlast.h)

(***************************************************************************)
(* FitsSchemaInputMapper: finalize.                                        *)
(***************************************************************************)
\* the items finalize started from
FinalizedInputs == MapperCtor(fmlast.h, fmlast.strip).inputs

\* a column whose format is unrecognized or unsupported: no format of the FITS
\* form, a type letter that is none of I, J, K, E, D, A, or a K that is no scalar
UnsupportedFormat(item) ==
    LET m == MatchTform(item.tform)
    IN  \/ ~m.matched
        \/ m.m3 \notin {"I", "J", "K", "E", "D", "A"}
        \/ m.m3 = "K" /\ (m.m2 \/ (m.m1 # << >> /\ LexicalCast(m.m1) # 1))

\* C25: where every other column has a reader and no flag is read, finalize
\* succeeds, the schema has a field for exactly the columns of supported format,
\* and one warning was logged for each of the others
UnsupportedColumnsSkipped ==
    (/\ fmlast # None
     /\ fmlast.op = "finalize"
     /\ fmlast.h.tflags = << >>
     /\ \A i \in DOMAIN FinalizedInputs :
           \/ UnsupportedFormat(FinalizedInputs[i])
           \/ makeColumnReader(FinalizedInputs[i]).kind = "reader")
    => /\ fmap.pc = "finalized"
       /\ {fmap.schema.order[i].column : i \in DOMAIN fmap.schema.order}
          = {FinalizedInputs[i].column :
                i \in {j \in DOMAIN FinalizedInputs : ~UnsupportedFormat(FinalizedInputs[j])}}
       /\ fmap.warnings
          = Cardinality({j \in DOMAIN FinalizedInputs : UnsupportedFormat(FinalizedInputs[j])})

\* C26: after finalize the fields of the columns stand in the schema in
\* ascending column number, and every column with a TFORM of a supported format
\* has its field, in whatever order the header had the keywords
FieldsInColumnOrder ==
    (fmlast # None /\ fmlast.op = "finalize" /\ fmap.pc = "finalized")
    => /\ \A i \in DOMAIN fmap.schema.order : \A j \in DOMAIN fmap.schema.order :
             i < j => fmap.schema.order[i].column < fmap.schema.order[j].column
       /\ \A c \in Columns :
             (/\ Keyword("TFORM", c) \in Range(fmlast.h.cards)
              /\ makeColumnReader([FitsSchemaItem(c, -1) EXCEPT
                                      !.tform = fmlast.h.tform[c],
                                      !.tccls = IF Keyword("TCCLS", c) \in Range(fmlast.h.cards)
                                                THEN fmlast.h.tccls[c] ELSE ""]).kind = "reader")
             => \E i \in DOMAIN fmap.schema.order : fmap.schema.order[i].column = c

(***************************************************************************)
(* FitsSchemaInputMapper: readArchive.                                     *)
(***************************************************************************)
\* C30: however readArchive ends, the FITS object is at the HDU it was at before
\* the call; after a return of false no archive is attached and the archive HDU
\* is -1
ReadArchiveRestoresHdu ==
    (fmlast # None /\ fmlast.op = "readArchive")
    => /\ fmap.hdu = fmlast.oldHdu
       /\ fmlast.result = "false" => (~fmap.archive /\ fmap.archiveHdu = -1)

(***************************************************************************)
(* SourceIdFactory::notify.                                                *)
(***************************************************************************)
\* id is (expId << reserved) | n for an n of the reserved bits
OfFactoryForm(f, id) ==
    \E n \in 0..(Pow2(f.reserved) - 1) : id = IdOr(IdShl(f.expId, f.reserved), n)

\* C28: notify(id) on the partitioned factory takes the ids of the factory's
\* form, storing their sequence part, and fails on every other id, leaving the
\* factory as it was
NotifyRejectsForeignIds ==
    (idlast # None /\ idlast.op = "notify" /\ idlast.pre.kind = "source")
    => IF OfFactoryForm(idlast.pre, idlast.id)
       THEN /\ idlast.status = "ok"
            /\ IdOr(idf.upper, idf.lower) = idlast.id
       ELSE /\ idlast.status # "ok"
            /\ idf = idlast.pre

(***************************************************************************)
(* HeavyFootprint::dot: the array iterators.                               *)
(***************************************************************************)
\* the number of pixels of the first n spans
RECURSIVE PixelsBefore(_, _)
PixelsBefore(spans, n) ==
    IF n = 0 THEN 0 ELSE PixelsBefore(spans, n - 1) + (spans[n].x1 - spans[n].x0 + 1)

\* C27: at every test of the loop condition of dot each array iterator stands
\* at the first pixel of its footprint's current span, and no array element
\* outside the pixels of its footprint has been read
DotCursorsInStep ==
    dotst.pc \in {"loop", "done"}
    => /\ dotst.lhsArray = PixelsBefore(heavy[dotst.l].spans, dotst.lhsIter - 1)
       /\ dotst.rhsArray = PixelsBefore(heavy[dotst.r].spans, dotst.rhsIter - 1)
       /\ dotst.lhsArray <= Len(heavy[dotst.l].image)
       /\ dotst.rhsArray <= Len(heavy[dotst.r].image)
       /\ ~dotst.oob

\* a product that ended after pixels were multiplied, rows skipped on one side
\* and spans passed on both
DotCursorsInStepWitness ==
    /\ dotst.pc = "done"
    /\ dotst.l # dotst.r
    /\ dotst.lhsIter > 2
    /\ dotst.rhsIter > 2
    /\ dotst.sum # 0
    /\ \E i \in DOMAIN heavy[dotst.l].spans :
          \A j \in DOMAIN heavy[dotst.r].spans :
             heavy[dotst.l].spans[i].y # heavy[dotst.r].spans[j].y

====
